---- MODULE Spec2Model ----
(***************************************************************************)
(* A model of the resume-tailoring service's core: the text-generation     *)
(* gateway (LLMManager), the cached JD analysis, the JD analyzer and the   *)
(* bullet optimizer / tailoring run.  Each subsystem has its own           *)
(* specification over the shared variables; a subsystem that a             *)
(* specification does not exercise stays in its initial state.             *)
(***************************************************************************)
EXTENDS Integers, Sequences, FiniteSets, TLC

VARIABLES
    max_retries,            \* LLMManager.max_retries (settings.max_retries)
    enable_fallback,        \* LLMManager.enable_fallback
    current_provider,       \* LLMManager.current_provider (the backend object)
    current_provider_name,  \* LLMManager.current_provider_name
    call,                   \* per caller: the position and locals of its generate_text call
    now,                    \* time.time(), in seconds
    ticks,                  \* how often the clock has advanced (bounds the run)
    cache,                  \* MemoryCacheService._cache: key -> CacheEntry
    db,                     \* the jd_analyses table: a set of rows
    jx,                     \* the JDAnalysisEnhancedUseCase.execute call in progress
    last_ok,                \* per content hash: when execute last wrote its cache entry
    ax,                     \* the /jd/analyze request in progress
    job_descriptions,       \* routes/tailor.py job_descriptions: the stored JDs, oldest first
    tx,                     \* the tailoring run in progress
    sc,                     \* the select_content call in progress
    lock,                   \* MemoryCacheService._lock: the thread holding it, or "free"
    th,                     \* per thread: its cache operation in progress
    cl,                     \* MemoryCacheService._running and its cleanup task
    at,                     \* the _calculate_ats_score call in progress
    ox,                     \* the ResumeOptimizationEnhancedUseCase.optimize_resume run
    fn,                     \* the scoring or selecting function call in progress
    jp                      \* per request: its execute call, when two requests overlap

gvars == <<max_retries, enable_fallback, current_provider, current_provider_name, call>>
cvars == <<now, ticks, cache, db, jx, last_ok>>

avars == <<ax, job_descriptions>>

tvars == <<tx>>

svars == <<sc>>

kvars == <<lock, th>>

lvars == <<cl>>

uvars == <<at>>

ovars == <<ox>>

fvars == <<fn>>

pvars == <<jp>>

vars == <<gvars, cvars, avars, tvars, svars, kvars, lvars, uvars, ovars, fvars, pvars>>

notGateway == <<pvars, fvars, ovars, uvars, cvars, avars, tvars, svars, kvars, lvars>>
notCached == <<pvars, fvars, ovars, uvars, gvars, avars, tvars, svars, kvars, lvars>>
notAnalyze == <<pvars, fvars, ovars, uvars, gvars, cvars, tvars, svars, kvars, lvars>>
notTailor == <<pvars, fvars, ovars, uvars, gvars, cvars, avars, svars, kvars, lvars>>
notSelect == <<pvars, fvars, ovars, uvars, gvars, cvars, avars, tvars, kvars, lvars>>
notCache == <<pvars, fvars, ovars, uvars, gvars, avars, tvars, svars, lvars, db, jx, last_ok>>
notAts == <<pvars, fvars, ovars, gvars, cvars, avars, tvars, svars, kvars, lvars>>
notOptimize == <<pvars, fvars, gvars, cvars, avars, tvars, svars, kvars, lvars, uvars>>
notScoring == <<pvars, gvars, cvars, avars, tvars, svars, kvars, lvars, uvars, ovars>>
notPair == <<fvars, ovars, uvars, gvars, avars, tvars, svars, kvars, lvars, jx, now, ticks>>
notCleanup == <<pvars, fvars, ovars, uvars, gvars, avars, tvars, svars, now, ticks, cache, db, jx, last_ok>>

(***************************************************************************)
(* Bounds of the model.                                                    *)
(***************************************************************************)
MaxRetriesCap == 3          \* max_retries ranges over 1..MaxRetriesCap
MaxTicks == 2               \* the clock advances at most MaxTicks times
MaxStoredJDs == 2           \* /jd/analyze is served while fewer JDs than this are stored
MaxLimit == 5               \* select_content is called with limits in -MaxLimit..MaxLimit
MaxOptimizations == 3       \* _calculate_ats_score is called with at most this many

Callers == {"c1", "c2"}     \* coroutines that may call the gateway
SeqCaller == "c1"           \* the one caller of the sequential specification
Errs == {"e1", "e2"}        \* distinct provider failures
Replies == {"r1", "r2"}     \* distinct texts a provider may return

(***************************************************************************)
(* Text-generation gateway: infra/llm/llm_manager.py                       *)
(***************************************************************************)
primary_provider_name == "openai"
fallback_provider_name == "together"
primary_provider == "primary_provider"
fallback_provider == IF enable_fallback THEN "fallback_provider" ELSE "None"

NoValue == "none"

IdleCall == [pc |-> "idle", attempt |-> 0, inflight |-> NoValue, e |-> NoValue,
             log |-> <<>>, sleeps |-> 0, started_on |-> NoValue,
             resets |-> 0, result |-> [status |-> "none"]]

\* LLMManager.__init__: both names set, the primary is the active backend.
GatewayInit(retries, fb) ==
    /\ max_retries = retries
    /\ enable_fallback = fb
    /\ current_provider = primary_provider
    /\ current_provider_name = primary_provider_name
    /\ call = [c \in Callers |-> IdleCall]

\* One entry of a call's log: an attempt against a backend and how it ended.
Attempt(provider) == [backend |-> provider, outcome |-> "pending", err |-> NoValue]
Ended(log, outcome, err) ==
    [log EXCEPT ![Len(log)] = [@ EXCEPT !.outcome = outcome, !.err = err]]

\* What a backend returns on success: the text, tagged with the backend that wrote it.
Reply(provider, r) == [by |-> provider, text |-> r]

\* line 111: the failed attempt was the last of the retry loop.
IsLastAttemptFirstOnly(a) == a = 0
IsLastAttemptOneEarly(a) == a >= max_retries - 2
IsLastAttempt(a) == a = max_retries - 1

\* line 113: try the fallback only if enabled and the active backend is the primary.
ShouldFailoverWhateverIsActive == enable_fallback
ShouldFailover == enable_fallback /\ current_provider_name = primary_provider_name

\* lines 101-105: on success the active backend is left as it is (the branch only logs).
ActiveAfterSuccessReset == <<primary_provider, primary_provider_name>>
ActiveAfterSuccess == <<current_provider, current_provider_name>>

\* lines 134-137: the error raised when the primary and the fallback both failed.
BothFailedErrorFallbackOnly(e, fallback_error) ==
    [status |-> "raised", kind |-> "both_failed",
     primary_error |-> NoValue, fallback_error |-> fallback_error]
BothFailedError(e, fallback_error) ==
    [status |-> "raised", kind |-> "both_failed",
     primary_error |-> e, fallback_error |-> fallback_error]

\* line 140: the error raised when no fallback is available or it is already active.
RetriesFailedError(e) ==
    [status |-> "raised", kind |-> "retries_failed",
     primary_error |-> e, fallback_error |-> NoValue]

\* lines 90-99: generate_text enters the loop and issues the first attempt against
\* the backend that is active at that moment, then suspends in the provider call.
GenStart(c) ==
    /\ call[c].pc = "idle"
    /\ max_retries > 0
    /\ call' = [call EXCEPT ![c] =
                  [IdleCall EXCEPT !.pc = "await", !.attempt = 0,
                                   !.inflight = current_provider,
                                   !.log = <<Attempt(current_provider)>>,
                                   !.started_on = current_provider_name]]
    /\ UNCHANGED <<max_retries, enable_fallback, current_provider, current_provider_name>>
    /\ UNCHANGED notGateway

\* lines 94-105: the awaited attempt returns a text; generate_text returns it.
GenAttemptOk(c) ==
    /\ call[c].pc = "await"
    /\ \E r \in Replies :
         call' = [call EXCEPT ![c].pc = "done", ![c].inflight = NoValue,
                              ![c].log = Ended(@, "ok", NoValue),
                              ![c].result = [status |-> "returned",
                                             value |-> Reply(call[c].inflight, r)]]
    /\ current_provider' = ActiveAfterSuccess[1]
    /\ current_provider_name' = ActiveAfterSuccess[2]
    /\ UNCHANGED <<max_retries, enable_fallback>>
    /\ UNCHANGED notGateway

\* lines 107-144: the awaited attempt raises.  Not the last attempt: sleep.  The last
\* attempt: switch to the fallback and call it (lines 113-127), or raise (line 140).
GenAttemptFail(c) ==
    /\ call[c].pc = "await"
    /\ \E err \in Errs :
         IF IsLastAttempt(call[c].attempt)
         THEN IF ShouldFailover
              THEN /\ current_provider' = fallback_provider
                   /\ current_provider_name' = fallback_provider_name
                   /\ call' = [call EXCEPT ![c].pc = "await_fallback", ![c].e = err,
                                           ![c].inflight = fallback_provider,
                                           ![c].log = Append(Ended(@, "fail", err),
                                                            Attempt(fallback_provider))]
              ELSE /\ call' = [call EXCEPT ![c].pc = "done", ![c].e = err,
                                           ![c].inflight = NoValue,
                                           ![c].log = Ended(@, "fail", err),
                                           ![c].result = RetriesFailedError(err)]
                   /\ UNCHANGED <<current_provider, current_provider_name>>
         ELSE /\ call' = [call EXCEPT ![c].pc = "sleep", ![c].e = err,
                                      ![c].inflight = NoValue,
                                      ![c].log = Ended(@, "fail", err),
                                      ![c].sleeps = @ + 1]
              /\ UNCHANGED <<current_provider, current_provider_name>>
    /\ UNCHANGED <<max_retries, enable_fallback>>
    /\ UNCHANGED notGateway

\* line 144 then lines 90-99: asyncio.sleep(retry_delay) ends, the loop issues the
\* next attempt against the backend that is active now.
GenWake(c) ==
    /\ call[c].pc = "sleep"
    /\ call' = [call EXCEPT ![c].pc = "await", ![c].attempt = @ + 1,
                            ![c].inflight = current_provider,
                            ![c].log = Append(@, Attempt(current_provider))]
    /\ UNCHANGED <<max_retries, enable_fallback, current_provider, current_provider_name>>
    /\ UNCHANGED notGateway

\* lines 122-130: the fallback attempt returns a text.
GenFallbackOk(c) ==
    /\ call[c].pc = "await_fallback"
    /\ \E r \in Replies :
         call' = [call EXCEPT ![c].pc = "done", ![c].inflight = NoValue,
                              ![c].log = Ended(@, "ok", NoValue),
                              ![c].result = [status |-> "returned",
                                             value |-> Reply(call[c].inflight, r)]]
    /\ UNCHANGED <<max_retries, enable_fallback, current_provider, current_provider_name>>
    /\ UNCHANGED notGateway

\* lines 132-137: the fallback attempt raises too.
GenFallbackFail(c) ==
    /\ call[c].pc = "await_fallback"
    /\ \E fallback_error \in Errs :
         call' = [call EXCEPT ![c].pc = "done", ![c].inflight = NoValue,
                              ![c].log = Ended(@, "fail", fallback_error),
                              ![c].result = BothFailedError(call[c].e, fallback_error)]
    /\ UNCHANGED <<max_retries, enable_fallback, current_provider, current_provider_name>>
    /\ UNCHANGED notGateway

\* The caller has taken the result; the coroutine is gone and a new call may start.
GenFinish(c) ==
    /\ call[c].pc = "done"
    /\ call' = [call EXCEPT ![c] = IdleCall]
    /\ UNCHANGED <<max_retries, enable_fallback, current_provider, current_provider_name>>
    /\ UNCHANGED notGateway

\* lines 148-152: reset_to_primary, a synchronous method an operator may call at any
\* point where the calls in flight are suspended.
ResetToPrimary ==
    /\ current_provider' = primary_provider
    /\ current_provider_name' = primary_provider_name
    /\ call' = [c \in Callers |->
                  IF call[c].pc = "idle" THEN call[c]
                  ELSE [call[c] EXCEPT !.resets = 1]]
    /\ UNCHANGED <<max_retries, enable_fallback>>
    /\ UNCHANGED notGateway

\* lines 154-156
get_current_provider == current_provider_name

(***************************************************************************)
(* JD texts.  A text is its sequence of lines (text.split('\n')); a line is *)
(* leading whitespace, an optional "position:" prefix, a body of len        *)
(* non-blank-delimited characters identified by id, and trailing            *)
(* whitespace.  A line with no prefix and no body is blank: all its         *)
(* whitespace is counted in lead.                                           *)
(***************************************************************************)
PositionPrefixLen == 9      \* len("position:")

TextLine(lead, prefix, id, len, trail) ==
    [lead |-> lead, prefix |-> prefix, id |-> id, len |-> len, trail |-> trail]
EmptyLine == TextLine(0, FALSE, 0, 0, 0)
IsBlank(l) == ~l.prefix /\ l.len = 0
LineLen(l) == l.lead + (IF l.prefix THEN PositionPrefixLen ELSE 0) + l.len + l.trail

\* len(text): the lines and the newlines between them
RECURSIVE SumLineLen(_)
SumLineLen(t) == IF t = <<>> THEN 0 ELSE LineLen(Head(t)) + SumLineLen(Tail(t))
StrLen(t) == SumLineLen(t) + Len(t) - 1

\* str.strip() of one line and of a whole text
StripLine(l) == IF IsBlank(l) THEN EmptyLine ELSE [l EXCEPT !.lead = 0, !.trail = 0]
RECURSIVE LStrip(_)
LStrip(t) ==
    IF t = <<>> THEN <<>>
    ELSE IF IsBlank(Head(t)) THEN LStrip(Tail(t))
    ELSE <<[Head(t) EXCEPT !.lead = 0]>> \o Tail(t)
RECURSIVE RStrip(_)
RStrip(t) ==
    IF t = <<>> THEN <<>>
    ELSE IF IsBlank(t[Len(t)]) THEN RStrip(SubSeq(t, 1, Len(t) - 1))
    ELSE SubSeq(t, 1, Len(t) - 1) \o <<[t[Len(t)] EXCEPT !.trail = 0]>>
Strip(t) == LET s == RStrip(LStrip(t)) IN IF s = <<>> THEN <<EmptyLine>> ELSE s

\* The JD texts the callers submit.
ShortTexts ==
    { <<EmptyLine>>,                                \* ""
      <<TextLine(60, FALSE, 0, 0, 0)>>,             \* 60 blanks
      <<TextLine(1, FALSE, 1, 49, 3)>> }            \* 53 characters, 49 once trimmed
PaddedText == <<TextLine(2, FALSE, 1, 50, 1)>>      \* 50 characters, and padding
BoundaryTexts == ShortTexts \cup {PaddedText}
JDTexts ==
    ShortTexts \cup
    { <<TextLine(0, FALSE, 1, 50, 0)>>,             \* exactly 50 characters
      PaddedText,                                   \* the same text, padded
      <<TextLine(0, TRUE, 0, 0, 0),
        TextLine(0, FALSE, 2, 120, 0),
        TextLine(1, FALSE, 3, 20, 2),
        EmptyLine>> }                               \* "position:", a long line, a title
\* ... and a text without any line short enough for a title
AnalyzerTexts == JDTexts \cup { <<TextLine(0, FALSE, 4, 120, 0)>> }

(***************************************************************************)
(* Analysis cache: infra/cache/memory_cache.py                             *)
(***************************************************************************)
\* line 106 (and 82): an entry is expired when its expiry lies before the current time
IsExpiredAtOrBefore(entry, t) == entry.expires_at <= t
IsExpired(entry, t) == entry.expires_at < t

Without(c, key) == [k \in DOMAIN c \ {key} |-> c[k]]

\* None, where a dict or a JSON string is expected
None == [none |-> TRUE]

\* lines 89-110: get returns the value, or None for a missing or expired key
CacheGet(c, key, t) ==
    IF key \notin DOMAIN c THEN None
    ELSE IF IsExpired(c[key], t) THEN None
    ELSE c[key].value
\* ... and deletes an expired entry it finds
CacheAfterGetKeeping(c, key, t) == c
CacheAfterGet(c, key, t) ==
    IF key \in DOMAIN c /\ IsExpired(c[key], t) THEN Without(c, key) ELSE c

\* lines 112-127: set stores the value with expires_at = time.time() + ttl
CacheSetNoTtl(c, key, value, ttl, t) ==
    [k \in DOMAIN c \cup {key} |->
        IF k = key THEN [value |-> value, expires_at |-> t] ELSE c[k]]
CacheSet(c, key, value, ttl, t) ==
    [k \in DOMAIN c \cup {key} |->
        IF k = key THEN [value |-> value, expires_at |-> t + ttl] ELSE c[k]]

\* lines 162-171: delete
CacheDelete(c, key) == IF key \in DOMAIN c THEN Without(c, key) ELSE c

\* json.dumps / json.loads: a dict becomes a JSON string and back; a string that is
\* not JSON does not load
JsonDumps(v) == [json |-> v]
IsJson(s) == DOMAIN s = {"json"}
JsonLoads(s) == s.json

\* lines 129-148: get_json
CacheGetJson(c, key, t) ==
    LET value == CacheGet(c, key, t) IN
    IF value = None THEN None
    ELSE IF IsJson(value) THEN JsonLoads(value) ELSE None
CacheAfterGetJson(c, key, t) ==
    LET value == CacheGet(c, key, t)
        c1 == CacheAfterGet(c, key, t) IN
    IF value # None /\ ~IsJson(value) THEN CacheDelete(c1, key) ELSE c1

\* lines 150-160: set_json
CacheSetJson(c, key, value, ttl, t) == CacheSet(c, key, JsonDumps(value), ttl, t)

\* lines 76-87: _remove_expired
RemoveExpired(c, t) == [k \in {x \in DOMAIN c : ~IsExpired(c[x], t)} |-> c[k]]

(***************************************************************************)
(* Cached JD analysis: application/use_cases/jd_analysis_enhanced.py       *)
(***************************************************************************)
MinJDLenCached == 50        \* line 83
JD_TTL == 604800            \* lines 104, 142: ttl=7*24*3600
Analyses == {"a1", "a2"}    \* distinct analysis dicts EnhancedLLMService.analyze_jd returns

\* line 83: not jd_text or len(jd_text.strip()) < 50
TooShortRawLength(text) == StrLen(text) = 0 \/ StrLen(text) < MinJDLenCached
TooShort(text) == StrLen(text) = 0 \/ StrLen(Strip(text)) < MinJDLenCached

\* lines 237-247: md5 of the text; distinct texts have distinct digests
Md5(text) == <<"md5", text>>
\* line 90
CacheKey(jd_hash) == <<"jd_analysis:", jd_hash>>

\* lines 227-235: the dict _get_from_database builds from a row (no "cached" key yet)
DbResult(row) == [jd_id |-> row.id, analysis |-> row.analysis_result, cached |-> "absent"]
\* lines 130-139: the dict built from a fresh analysis
FreshResult(row_id, analysis) == [jd_id |-> row_id, analysis |-> analysis, cached |-> FALSE]
\* lines 96, 105: result["cached"] = True
MarkCachedForgotten(result) == result
MarkCached(result) == [result EXCEPT !.cached = TRUE]
\* line 94, 101: a dict is truthy unless it is None (every dict built above has keys)
Truthy(d) == d # None

\* line 104: a store hit is written back to the cache
StoreHitWriteBackSkipped(c, key, db_result, t) == c
StoreHitWriteBack(c, key, db_result, t) == CacheSetJson(c, key, db_result, JD_TTL, t)

IdleJx == [pc |-> "idle", raw |-> <<>>, jd_text |-> NoValue, jd_hash |-> NoValue, analysis |-> NoValue,
           row_id |-> 0, trace |-> <<>>, llm_calls |-> 0, started_at |-> 0,
           entry_written_at |-> -1, ended_at |-> -1, result |-> [status |-> "none"]]

Raised(error) == [status |-> "raised", error |-> error]
Returned(value) == [status |-> "returned", value |-> value]

CachedInit ==
    /\ now = 0
    /\ ticks = 0
    /\ cache = <<>>
    /\ db = {}
    /\ jx = IdleJx
    /\ last_ok = <<>>

\* the history of successful cache writes by execute: hash -> time of the last one
NoteWritten(h, t) ==
    [k \in DOMAIN last_ok \cup {h} |-> IF k = h THEN t ELSE last_ok[k]]
WrittenAt(h) == IF h \in DOMAIN last_ok THEN last_ok[h] ELSE -1

\* lines 82-100: validate, trim, hash, look in the cache; on a hit return it marked
\* cached, on a miss send the query by hash to the store
ExecStart(texts) ==
    /\ jx.pc = "idle"
    /\ ax.pc \in {"idle", "done"}
    /\ \E text \in texts :
         IF TooShort(text)
         THEN /\ jx' = [IdleJx EXCEPT !.pc = "done", !.raw = text, !.jd_text = text,
                                      !.started_at = now,
                                      !.result = Raised("ValueError")]
              /\ UNCHANGED cache
         ELSE LET jd_text == Strip(text)
                  jd_hash == Md5(jd_text)
                  cache_key == CacheKey(jd_hash)
                  cached_result == CacheGetJson(cache, cache_key, now)
                  base == [IdleJx EXCEPT !.raw = text, !.jd_text = jd_text,
                                         !.jd_hash = jd_hash,
                                         !.started_at = now,
                                         !.entry_written_at = WrittenAt(jd_hash)]
              IN /\ cache' = CacheAfterGetJson(cache, cache_key, now)
                 /\ IF Truthy(cached_result)
                    THEN jx' = [base EXCEPT !.pc = "done", !.trace = <<"cache_get">>,
                                            !.ended_at = now,
                                            !.result = Returned(MarkCached(cached_result))]
                    ELSE jx' = [base EXCEPT !.pc = "db_select",
                                            !.trace = <<"cache_get", "db_select">>]
    /\ UNCHANGED <<now, ticks, db, last_ok>>
    /\ UNCHANGED notCached

\* lines 100-110, 220-235: the query returns.  One row: write it back to the cache and
\* return it marked cached.  No row: call the LLM.  (jd_hash is unique in the table.)
ExecDbSelect ==
    /\ jx.pc = "db_select"
    /\ LET rows == {r \in db : r.jd_hash = jx.jd_hash} IN
       IF rows = {}
       THEN /\ jx' = [jx EXCEPT !.pc = "llm", !.llm_calls = @ + 1,
                                !.trace = Append(@, "llm")]
            /\ UNCHANGED <<cache, last_ok>>
       ELSE IF Cardinality(rows) = 1
       THEN LET db_result == DbResult(CHOOSE r \in rows : TRUE) IN
            IF Truthy(db_result)
            THEN /\ cache' = StoreHitWriteBack(cache, CacheKey(jx.jd_hash), db_result, now)
                 /\ jx' = [jx EXCEPT !.pc = "done", !.trace = Append(@, "cache_set"),
                                     !.ended_at = now,
                                     !.result = Returned(MarkCached(db_result))]
                 /\ last_ok' = NoteWritten(jx.jd_hash, now)
            ELSE /\ jx' = [jx EXCEPT !.pc = "llm", !.llm_calls = @ + 1,
                                     !.trace = Append(@, "llm")]
                 /\ UNCHANGED <<cache, last_ok>>
       ELSE /\ jx' = [jx EXCEPT !.pc = "done", !.result = Raised("MultipleResultsFound")]
            /\ UNCHANGED <<cache, last_ok>>
    /\ UNCHANGED <<now, ticks, db>>
    /\ UNCHANGED notCached

\* line 100: the store cannot be reached; the error propagates
ExecDbSelectFail ==
    /\ jx.pc = "db_select"
    /\ jx' = [jx EXCEPT !.pc = "done", !.result = Raised("DatabaseError")]
    /\ UNCHANGED <<now, ticks, cache, db, last_ok>>
    /\ UNCHANGED notCached

\* lines 110-126: the analysis arrives; the row is added and the commit sent
ExecLlmOk ==
    /\ jx.pc = "llm"
    /\ \E analysis \in Analyses :
         jx' = [jx EXCEPT !.pc = "commit", !.analysis = analysis,
                          !.trace = Append(@, "db_commit")]
    /\ UNCHANGED <<now, ticks, cache, db, last_ok>>
    /\ UNCHANGED notCached

\* line 110: the LLM call raises; the error propagates
ExecLlmFail ==
    /\ jx.pc = "llm"
    /\ jx' = [jx EXCEPT !.pc = "done", !.result = Raised("LLMError")]
    /\ UNCHANGED <<now, ticks, cache, db, last_ok>>
    /\ UNCHANGED notCached

\* lines 125-127: the commit inserts the row (a second row with the same jd_hash is
\* refused: the column is unique); refresh is sent
ExecCommit ==
    /\ jx.pc = "commit"
    /\ IF \E r \in db : r.jd_hash = jx.jd_hash
       THEN /\ jx' = [jx EXCEPT !.pc = "done", !.result = Raised("IntegrityError")]
            /\ UNCHANGED db
       ELSE LET id == Cardinality(db) + 1 IN
            /\ db' = db \cup {[id |-> id, jd_hash |-> jx.jd_hash,
                               analysis_result |-> jx.analysis]}
            /\ jx' = [jx EXCEPT !.pc = "refresh", !.row_id = id]
    /\ UNCHANGED <<now, ticks, cache, last_ok>>
    /\ UNCHANGED notCached

\* the commit fails after the result has been cached
ExecCommitFailAfterCaching ==
    /\ jx.pc = "commit"
    /\ cache' = CacheSetJson(cache, CacheKey(jx.jd_hash),
                             FreshResult(Cardinality(db) + 1, jx.analysis), JD_TTL, now)
    /\ jx' = [jx EXCEPT !.pc = "done", !.result = Raised("DatabaseError")]
    /\ UNCHANGED <<now, ticks, db, last_ok>>
    /\ UNCHANGED notCached

\* line 126: the commit fails; nothing is stored and the error propagates
ExecCommitFail ==
    /\ jx.pc = "commit"
    /\ jx' = [jx EXCEPT !.pc = "done", !.result = Raised("DatabaseError")]
    /\ UNCHANGED <<now, ticks, cache, db, last_ok>>
    /\ UNCHANGED notCached

\* lines 127-146: refresh returns; the result is built, cached and returned
ExecRefresh ==
    /\ jx.pc = "refresh"
    /\ LET result == FreshResult(jx.row_id, jx.analysis) IN
       /\ cache' = CacheSetJson(cache, CacheKey(jx.jd_hash), result, JD_TTL, now)
       /\ jx' = [jx EXCEPT !.pc = "done", !.trace = Append(@, "cache_set"),
                           !.ended_at = now,
                           !.result = Returned(result)]
    /\ last_ok' = NoteWritten(jx.jd_hash, now)
    /\ UNCHANGED <<now, ticks, db>>
    /\ UNCHANGED notCached

\* line 127: refresh fails after the commit; the error propagates
ExecRefreshFail ==
    /\ jx.pc = "refresh"
    /\ jx' = [jx EXCEPT !.pc = "done", !.result = Raised("DatabaseError")]
    /\ UNCHANGED <<now, ticks, cache, db, last_ok>>
    /\ UNCHANGED notCached

\* the caller has the result; the next call may start
ExecFinish ==
    /\ jx.pc = "done"
    /\ jx' = IdleJx
    /\ UNCHANGED <<now, ticks, cache, db, last_ok>>
    /\ UNCHANGED notCached

\* time passes
TickSteps == {1, JD_TTL}
Tick(steps) ==
    /\ ticks < MaxTicks
    /\ \E d \in steps : now' = now + d
    /\ ticks' = ticks + 1
    /\ UNCHANGED <<cache, db, jx, last_ok>>
    /\ UNCHANGED notCached

\* lines 65-87: the cleanup loop wakes up and sweeps the expired entries
Sweep ==
    /\ cache' = RemoveExpired(cache, now)
    /\ UNCHANGED <<now, ticks, db, jx, last_ok>>
    /\ UNCHANGED notCached

(***************************************************************************)
(* Two /jd-analysis/analyze requests at once.  Each request has its own    *)
(* use case and its own session (get_db_session); the cache is the one     *)
(* get_cache_service instance and the store the one jd_analyses table.     *)
(* A call gives the event loop away at the query, at analyze_jd, at the    *)
(* commit and at the refresh.  The LLM and the store answer every call.    *)
(***************************************************************************)
PairInit == jp = [c \in Callers |-> IdleJx]

\* lines 82-100: validate, trim, hash, look in the cache; on a hit return it marked
\* cached, on a miss send the query by hash to the store
PairStart(c, texts) ==
    /\ jp[c].pc = "idle"
    /\ \E text \in texts :
         IF TooShort(text)
         THEN /\ jp' = [jp EXCEPT ![c] =
                         [IdleJx EXCEPT !.pc = "done", !.raw = text, !.jd_text = text,
                                        !.started_at = now,
                                        !.result = Raised("ValueError")]]
              /\ UNCHANGED cache
         ELSE LET jd_text == Strip(text)
                  jd_hash == Md5(jd_text)
                  cache_key == CacheKey(jd_hash)
                  cached_result == CacheGetJson(cache, cache_key, now)
                  base == [IdleJx EXCEPT !.raw = text, !.jd_text = jd_text,
                                         !.jd_hash = jd_hash,
                                         !.started_at = now,
                                         !.entry_written_at = WrittenAt(jd_hash)]
              IN /\ cache' = CacheAfterGetJson(cache, cache_key, now)
                 /\ IF Truthy(cached_result)
                    THEN jp' = [jp EXCEPT ![c] =
                                  [base EXCEPT !.pc = "done", !.trace = <<"cache_get">>,
                                               !.ended_at = now,
                                               !.result = Returned(MarkCached(cached_result))]]
                    ELSE jp' = [jp EXCEPT ![c] =
                                  [base EXCEPT !.pc = "db_select",
                                               !.trace = <<"cache_get", "db_select">>]]
    /\ UNCHANGED <<db, last_ok>>
    /\ UNCHANGED notPair

\* lines 100-110, 220-235: the query returns the committed row of the hash, if any
PairDbSelect(c) ==
    /\ jp[c].pc = "db_select"
    /\ LET rows == {r \in db : r.jd_hash = jp[c].jd_hash} IN
       IF rows = {}
       THEN /\ jp' = [jp EXCEPT ![c].pc = "llm", ![c].llm_calls = @ + 1,
                                ![c].trace = Append(@, "llm")]
            /\ UNCHANGED <<cache, last_ok>>
       ELSE LET db_result == DbResult(CHOOSE r \in rows : TRUE) IN
            /\ cache' = StoreHitWriteBack(cache, CacheKey(jp[c].jd_hash), db_result, now)
            /\ jp' = [jp EXCEPT ![c].pc = "done", ![c].trace = Append(@, "cache_set"),
                                ![c].ended_at = now,
                                ![c].result = Returned(MarkCached(db_result))]
            /\ last_ok' = NoteWritten(jp[c].jd_hash, now)
    /\ UNCHANGED db
    /\ UNCHANGED notPair

\* lines 110-126: the analysis arrives; the row is added and the commit sent
PairLlmOk(c) ==
    /\ jp[c].pc = "llm"
    /\ \E analysis \in Analyses :
         jp' = [jp EXCEPT ![c].pc = "commit", ![c].analysis = analysis,
                          ![c].trace = Append(@, "db_commit")]
    /\ UNCHANGED <<cache, db, last_ok>>
    /\ UNCHANGED notPair

\* lines 125-127 and models.py line 109: the commit inserts the row, unless a row
\* with the same jd_hash is there: the column is unique, the INSERT is refused and
\* the IntegrityError leaves execute
PairCommit(c) ==
    /\ jp[c].pc = "commit"
    /\ IF \E r \in db : r.jd_hash = jp[c].jd_hash
       THEN /\ jp' = [jp EXCEPT ![c].pc = "done", ![c].result = Raised("IntegrityError")]
            /\ UNCHANGED db
       ELSE LET id == Cardinality(db) + 1 IN
            /\ db' = db \cup {[id |-> id, jd_hash |-> jp[c].jd_hash,
                               analysis_result |-> jp[c].analysis]}
            /\ jp' = [jp EXCEPT ![c].pc = "refresh", ![c].row_id = id]
    /\ UNCHANGED <<cache, last_ok>>
    /\ UNCHANGED notPair

\* lines 127-146: refresh returns; the result is built, cached and returned
PairRefresh(c) ==
    /\ jp[c].pc = "refresh"
    /\ LET result == FreshResult(jp[c].row_id, jp[c].analysis) IN
       /\ cache' = CacheSetJson(cache, CacheKey(jp[c].jd_hash), result, JD_TTL, now)
       /\ jp' = [jp EXCEPT ![c].pc = "done", ![c].trace = Append(@, "cache_set"),
                           ![c].ended_at = now,
                           ![c].result = Returned(result)]
    /\ last_ok' = NoteWritten(jp[c].jd_hash, now)
    /\ UNCHANGED db
    /\ UNCHANGED notPair

(***************************************************************************)
(* The cache used by several threads: infra/cache/memory_cache.py          *)
(*                                                                         *)
(* A thread's operation is a call, the wait for the lock, the body under   *)
(* the lock (with the release) and the return.                             *)
(***************************************************************************)
SweepThread == "sweep"
CacheThreads == Callers \cup {SweepThread}
CacheKeys == {"k1", "k2"}
CacheValues == {JsonDumps("a1")}
CacheTtls == {0, 1}
CallerOps == {"get", "set", "delete", "clear", "get_stats"}

\* the operations whose body is a `with self._lock` block (lines 79, 99, 123, 169, 188, 200)
TakesLockButSweep(op) == op \in {"get", "set", "delete", "clear", "get_stats"}
TakesLock(op) == op \in {"get", "set", "delete", "clear", "get_stats", "sweep"}

NoEntries == [k \in {} |-> None]
IdleTh == [pc |-> "idle", op |-> "none", key |-> "none", value |-> None, ttl |-> 0,
           time |-> 0, returned |-> None, before |-> NoEntries, after |-> NoEntries]

CacheInit ==
    /\ lock = "free"
    /\ th = [t \in CacheThreads |-> IdleTh]

\* lines 191-212: get_stats
CacheStats(c, current_time) ==
    LET total_entries == Cardinality(DOMAIN c)
        expired_entries == Cardinality({k \in DOMAIN c : IsExpired(c[k], current_time)})
    IN  [total_entries |-> total_entries,
         active_entries |-> total_entries - expired_entries,
         expired_entries |-> expired_entries]

Only(c, key) == [k \in DOMAIN c \cap {key} |-> c[k]]

\* a caller calls an operation; set (line 121) and get_stats (line 198) read the
\* clock before they ask for the lock
CacheCall(t, keys) ==
    /\ th[t].pc = "idle"
    /\ \E op \in CallerOps, key \in keys, value \in CacheValues, ttl \in CacheTtls :
         th' = [th EXCEPT ![t] =
                  CASE op = "set" ->
                         [IdleTh EXCEPT !.pc = "wait", !.op = op, !.key = key,
                                        !.value = value, !.ttl = ttl, !.time = now]
                    [] op \in {"get", "delete"} ->
                         [IdleTh EXCEPT !.pc = "wait", !.op = op, !.key = key]
                    [] op = "get_stats" ->
                         [IdleTh EXCEPT !.pc = "wait", !.op = op, !.time = now]
                    [] OTHER -> [IdleTh EXCEPT !.pc = "wait", !.op = op]]
    /\ UNCHANGED <<lock, cache, now, ticks>>
    /\ UNCHANGED notCache

\* lines 70, 76-78: the cleanup loop calls _remove_expired, which reads the clock
SweepCall ==
    /\ th[SweepThread].pc = "idle"
    /\ th' = [th EXCEPT ![SweepThread] =
                 [IdleTh EXCEPT !.pc = "wait", !.op = "sweep", !.time = now]]
    /\ UNCHANGED <<lock, cache, now, ticks>>
    /\ UNCHANGED notCache

\* `with self._lock:` the thread gets the lock once it is free
CacheEnter(t) ==
    /\ th[t].pc = "wait"
    /\ IF TakesLock(th[t].op)
       THEN lock = "free" /\ lock' = t
       ELSE UNCHANGED lock
    /\ th' = [th EXCEPT ![t].pc = "locked"]
    /\ UNCHANGED <<cache, now, ticks>>
    /\ UNCHANGED notCache

\* the body of the with block, and the release of the lock at its end
CacheBody(t) ==
    /\ th[t].pc = "locked"
    /\ LET c == th[t]
           after ==
               CASE c.op = "get" -> CacheAfterGet(cache, c.key, now)
                 [] c.op = "set" -> CacheSet(cache, c.key, c.value, c.ttl, c.time)
                 [] c.op = "delete" -> CacheDelete(cache, c.key)
                 [] c.op = "clear" -> NoEntries
                 [] c.op = "sweep" -> RemoveExpired(cache, c.time)
                 [] OTHER -> cache
       IN  /\ cache' = after
           /\ th' = [th EXCEPT ![t] =
                 CASE c.op = "get" ->
                        [c EXCEPT !.pc = "done", !.time = now,
                                  !.returned = CacheGet(cache, c.key, now),
                                  !.before = Only(cache, c.key),
                                  !.after = Only(after, c.key)]
                   [] c.op = "get_stats" ->
                        [c EXCEPT !.pc = "done", !.returned = CacheStats(cache, c.time)]
                   [] c.op = "sweep" ->
                        [c EXCEPT !.pc = "done", !.before = cache, !.after = after]
                   [] OTHER -> IdleTh]
    /\ lock' = IF lock = t THEN "free" ELSE lock
    /\ UNCHANGED <<now, ticks>>
    /\ UNCHANGED notCache

\* the operation returns to its caller
CacheReturn(t) ==
    /\ th[t].pc = "done"
    /\ th' = [th EXCEPT ![t] = IdleTh]
    /\ UNCHANGED <<lock, cache, now, ticks>>
    /\ UNCHANGED notCache

(***************************************************************************)
(* The cleanup task of the cache: start, stop and _cleanup_loop (lines     *)
(* 49-74).  start, stop and the loop are coroutines of one event loop: the *)
(* loop gives the event loop away only in asyncio.sleep, so start and stop *)
(* run while the task is not yet begun, asleep or over.                    *)
(***************************************************************************)
IdleCl == [running |-> FALSE,       \* self._running
           task |-> "none",         \* where self._cleanup_task is
           old |-> "none",          \* a cancelled task that start has replaced
           awaiting |-> FALSE,      \* a stop call is awaiting the task it cancelled
           failed_before |-> FALSE, \* a sweep of the current task has raised
           called |-> "none"]       \* the last call made: start, start_running or stop

CleanupInit == cl = IdleCl

\* where the event loop may run another coroutine
TaskSuspended == cl.task \in {"none", "created", "sleeping", "cancelling", "finished"}

\* lines 72-74: `except Exception` prints the error and the while loop goes on
AfterCleanupErrorBreak == "finished"
AfterCleanupError == "test"

\* line 51: `if not self._running`
StartCreatesTaskAlways == TRUE
StartCreatesTask == ~cl.running

\* a task that is neither over nor unborn
Unfinished == {"created", "test", "sleeping", "sweeping", "failed", "cancelling"}

\* lines 49-53: start sets _running and puts a new task in _cleanup_task (the task
\* that was there goes on by itself if it is not over), or does nothing
CleanupStart ==
    /\ TaskSuspended
    /\ cl' = IF StartCreatesTask
             THEN [cl EXCEPT !.running = TRUE, !.task = "created", !.failed_before = FALSE,
                             !.old = IF cl.task \in Unfinished THEN cl.task ELSE cl.old,
                             !.called = "start"]
             ELSE [cl EXCEPT !.called = "start_running"]
    /\ UNCHANGED kvars
    /\ UNCHANGED notCleanup

\* start called when no stop call is waiting for its task: the caller makes its
\* calls one after the other (main.py lines 38-73: startup_event, shutdown_event)
CleanupStartInTurn ==
    /\ ~cl.awaiting
    /\ CleanupStart

\* lines 55-63: stop clears _running, cancels the task and awaits it (one stop call
\* at a time)
CleanupStop ==
    /\ TaskSuspended
    /\ ~cl.awaiting
    /\ cl.running \/ cl.task # "none"
    /\ cl' = IF cl.task \in {"created", "sleeping"}
             THEN [cl EXCEPT !.running = FALSE, !.task = "cancelling", !.awaiting = TRUE,
                             !.called = "stop"]
             ELSE [cl EXCEPT !.running = FALSE, !.called = "stop"]
    /\ UNCHANGED kvars
    /\ UNCHANGED notCleanup

\* lines 60-63: the awaited task is over, stop returns
CleanupStopReturn ==
    /\ cl.awaiting
    /\ cl.task # "cancelling"
    /\ cl.old = "none"
    /\ cl' = [cl EXCEPT !.awaiting = FALSE]
    /\ UNCHANGED kvars
    /\ UNCHANGED notCleanup

\* the event loop runs the new task up to the loop test
LoopBegin ==
    /\ cl.task = "created"
    /\ cl' = [cl EXCEPT !.task = "test"]
    /\ UNCHANGED kvars
    /\ UNCHANGED notCleanup

\* lines 67-69: `while self._running:` and the call of asyncio.sleep
LoopTest ==
    /\ cl.task = "test"
    /\ cl' = [cl EXCEPT !.task = IF cl.running THEN "sleeping" ELSE "finished"]
    /\ UNCHANGED kvars
    /\ UNCHANGED notCleanup

\* lines 69-70, 78: the interval is over and the loop calls _remove_expired, which
\* reads the clock
LoopWake ==
    /\ cl.task = "sleeping"
    /\ th[SweepThread].pc = "idle"
    /\ cl' = [cl EXCEPT !.task = "sweeping"]
    /\ th' = [th EXCEPT ![SweepThread] =
                 [IdleTh EXCEPT !.pc = "wait", !.op = "sweep", !.time = now]]
    /\ UNCHANGED lock
    /\ UNCHANGED notCleanup

\* line 70: _remove_expired returns, back to the loop test
LoopSwept ==
    /\ cl.task = "sweeping"
    /\ th[SweepThread].pc = "done"
    /\ cl' = [cl EXCEPT !.task = "test"]
    /\ th' = [th EXCEPT ![SweepThread] = IdleTh]
    /\ UNCHANGED lock
    /\ UNCHANGED notCleanup

\* lines 70, 72: _remove_expired raises, before or inside its with block (which
\* gives the lock back)
LoopSweepRaises ==
    /\ cl.task = "sweeping"
    /\ th[SweepThread].pc \in {"wait", "locked"}
    /\ cl' = [cl EXCEPT !.task = "failed", !.failed_before = TRUE]
    /\ th' = [th EXCEPT ![SweepThread] = IdleTh]
    /\ lock' = IF lock = SweepThread THEN "free" ELSE lock
    /\ UNCHANGED notCleanup

\* lines 72-74: the error is printed
LoopPrint ==
    /\ cl.task = "failed"
    /\ cl' = [cl EXCEPT !.task = AfterCleanupError]
    /\ UNCHANGED kvars
    /\ UNCHANGED notCleanup

\* lines 71-72: a cancelled task gets CancelledError in its sleep and breaks (or
\* never begins)
LoopCancelled ==
    /\ \/ /\ cl.task = "cancelling"
          /\ cl' = [cl EXCEPT !.task = "finished"]
       \/ /\ cl.old = "cancelling"
          /\ cl' = [cl EXCEPT !.old = "none"]
    /\ UNCHANGED kvars
    /\ UNCHANGED notCleanup

\* the steps of the cleanup task that the event loop takes by itself
LoopRun == LoopBegin \/ LoopTest \/ LoopWake \/ LoopPrint \/ LoopCancelled

(***************************************************************************)
(* JD analyzer: infra/nlp/jd_analyzer.py, use_cases/analyze_jd.py and the  *)
(* /jd/analyze handler of api/routes/jd.py                                 *)
(***************************************************************************)
MinJDLen == 50              \* analyze_jd.py line 29
PositionScanLines == 5      \* jd_analyzer.py line 141: lines[:5]
PositionMaxLineLen == 100   \* jd_analyzer.py line 143: len(line) < 100

\* analyze_jd.py line 29: not raw_text or len(raw_text.strip()) < 50
AnalyzeTooShortRawLength(text) == StrLen(text) = 0 \/ StrLen(text) < MinJDLen
AnalyzeTooShort(text) == StrLen(text) = 0 \/ StrLen(Strip(text)) < MinJDLen

\* What the LLM answers, as a sequence of tokens: a code fence ```, the word json, a
\* run of whitespace, prose that is not JSON, or one complete JSON value.
Fence == [tok |-> "fence"]
JsonWord == [tok |-> "jsonword"]
Ws == [tok |-> "ws"]
Prose == [tok |-> "prose"]
JsonValue(type, v) == [tok |-> "value", type |-> type, v |-> v]

Kw(text, weight, category) == [text |-> text, weight |-> weight, category |-> category]
LlmPosition == [kind |-> "llm", id |-> 0, len |-> 0]
NonePosition == [kind |-> "none", id |-> 0, len |-> 0]
UnknownPosition == [kind |-> "unknown", id |-> 0, len |-> 0]
LinePosition(l) == [kind |-> "line", id |-> l.id, len |-> l.len]

\* the object the prompt asks for (weights in hundredths)
FullObject ==
    JsonValue("dict", [company |-> "Acme", position |-> LlmPosition, industry |-> "Tech",
                       required_skills |-> <<"Python", "SQL">>,
                       preferred_skills |-> <<"Docker">>,
                       responsibilities |-> << <<"develop", " ", "services">> >>,
                       qualifications |-> <<"BSc">>,
                       keywords |-> <<Kw("develop", 90, "required")>>])
EmptyObject == JsonValue("dict", [x \in {} |-> 0])                        \* {}
KeywordWithoutText ==                                                    \* a keyword lacks "text"
    JsonValue("dict", [position |-> LlmPosition,
                       keywords |-> <<[weight |-> 90, category |-> "required"]>>])
JsonList == JsonValue("list", <<>>)                                      \* []
JsonNull == JsonValue("null", <<>>)                                      \* null
JsonNumber == JsonValue("int", <<>>)                                     \* 42

LlmResponses ==
    { <<FullObject>>,
      <<Fence, JsonWord, Ws, FullObject, Ws, Fence>>,
      <<Fence, Ws, FullObject, Ws, Fence>>,
      <<Prose, Ws, Fence, JsonWord, Ws, FullObject, Ws, Fence>>,
      <<Prose>>,
      <<>>,
      <<EmptyObject>>,
      <<KeywordWithoutText>>,
      <<JsonList>>,
      <<JsonNull>>,
      <<JsonNumber>> }

\* line 96: re.sub(r'```json\s*|\s*```', '', response), scanning from the left:
\* "```json" with the whitespace after it, or "```" with the whitespace before it
RECURSIVE StripFences(_)
StripFences(r) ==
    IF r = <<>> THEN <<>>
    ELSE IF Len(r) >= 2 /\ r[1] = Fence /\ r[2] = JsonWord
         THEN IF Len(r) >= 3 /\ r[3] = Ws
              THEN StripFences(SubSeq(r, 4, Len(r)))
              ELSE StripFences(SubSeq(r, 3, Len(r)))
    ELSE IF r[1] = Fence THEN StripFences(Tail(r))
    ELSE IF Len(r) >= 2 /\ r[1] = Ws /\ r[2] = Fence
         THEN StripFences(SubSeq(r, 3, Len(r)))
    ELSE <<r[1]>> \o StripFences(Tail(r))

\* line 96: .strip()
StripTokens(r) ==
    LET a == IF r # <<>> /\ r[1] = Ws THEN Tail(r) ELSE r
    IN  IF a # <<>> /\ a[Len(a)] = Ws THEN SubSeq(a, 1, Len(a) - 1) ELSE a

\* line 97: json.loads succeeds on exactly one JSON value
JsonDecodes(json_text) == Len(json_text) = 1 /\ json_text[1].tok = "value"

\* lines 135-149: the first of the first five lines that is, once stripped, non-empty
\* and shorter than 100 and still non-empty without its "position:" prefix
RECURSIVE FirstTitle(_)
FirstTitle(lines) ==
    IF lines = <<>> THEN UnknownPosition
    ELSE LET line == StripLine(Head(lines)) IN
         IF LineLen(line) > 0 /\ LineLen(line) < PositionMaxLineLen /\ line.len > 0
         THEN LinePosition(line)
         ELSE FirstTitle(Tail(lines))
ExtractPositionFallback(text) ==
    FirstTitle(SubSeq(text, 1, IF Len(text) < PositionScanLines THEN Len(text)
                                                               ELSE PositionScanLines))

\* lines 104-114: the minimal structure returned when the answer does not decode
MinimalStructure(raw_text) ==
    [company |-> "None", position |-> ExtractPositionFallback(raw_text),
     industry |-> "None", required_skills |-> <<>>, preferred_skills |-> <<>>,
     responsibilities |-> <<>>, qualifications |-> <<>>, keywords |-> <<>>]

\* lines 86-117, on an answer: the parsed value, or the minimal structure
ExtractStructuredData(raw_text, response) ==
    LET json_text == StripTokens(StripFences(response)) IN
    IF JsonDecodes(json_text) THEN json_text[1]
    ELSE JsonValue("dict", MinimalStructure(raw_text))

\* lines 101-117, on a failed generation call: only a JSONDecodeError is handled, and
\* its handler prints the unbound local `response`; everything is raised
OnGenerationErrorMinimal(raw_text, error) ==
    [kind |-> "result", value |-> JsonValue("dict", MinimalStructure(raw_text))]
OnGenerationError(raw_text, error) ==
    IF error = "JSONDecodeError" THEN [kind |-> "raised", error |-> "UnboundLocalError"]
    ELSE [kind |-> "raised", error |-> error]

\* dict.get(key, default)
Get(d, key, default) == IF key \in DOMAIN d THEN d[key] ELSE default

\* lines 119-133: _create_weighted_keywords
KeywordsWellFormed(d) ==
    \A i \in DOMAIN Get(d, "keywords", <<>>) :
        {"text", "weight", "category"} \subseteq DOMAIN d.keywords[i]

\* lines 17-43: analyze builds the JobDescription from the structured data
JobDescriptionOf(raw_text, d) ==
    [raw_text |-> raw_text,
     company |-> Get(d, "company", "None"),
     position |-> Get(d, "position", NonePosition),
     required_skills |-> Get(d, "required_skills", <<>>),
     preferred_skills |-> Get(d, "preferred_skills", <<>>),
     responsibilities |-> Get(d, "responsibilities", <<>>),
     qualifications |-> Get(d, "qualifications", <<>>),
     industry |-> Get(d, "industry", "None"),
     keywords |-> Get(d, "keywords", <<>>)]

\* lines 17-43: what analyze does with the structured data: a value that is no dict
\* has no .get, a keyword without a key raises KeyError
AnalyzeResult(raw_text, data) ==
    IF data.type # "dict" THEN [kind |-> "raised", error |-> "AttributeError"]
    ELSE IF ~KeywordsWellFormed(data.v) THEN [kind |-> "raised", error |-> "KeyError"]
    ELSE [kind |-> "jd", jd |-> JobDescriptionOf(raw_text, data.v)]

\* errors a generation call may raise
GenerationErrors == {"RuntimeError", "JSONDecodeError"}

\* routes/jd.py lines 47-86: the handler's answer to the use case's outcome
HttpResponse(outcome) ==
    IF outcome.kind = "jd" THEN [success |-> TRUE, status |-> 200]
    ELSE IF outcome.error = "ValueError" THEN [success |-> FALSE, status |-> 400]
    ELSE [success |-> FALSE, status |-> 200]

\* routes/tailor.py lines 138-140: store_job_description, under a new id
StoreJobDescription(store, jd) == Append(store, jd)

IdleAx == [pc |-> "idle", raw_text |-> <<>>, llm_calls |-> 0, generation |-> "none",
           response |-> <<>>, outcome |-> [kind |-> "none"],
           http |-> [success |-> FALSE, status |-> 0], stored_before |-> <<>>]

AnalyzeInit ==
    /\ ax = IdleAx
    /\ job_descriptions = <<>>

\* jd.py line 48, analyze_jd.py lines 28-33, jd_analyzer.py lines 17-92: validate,
\* trim, build the prompt and send it.  The handler body is entered with any text
\* (the request schema's own length limit, on the untrimmed text, is left out).
AnalyzeStart(texts) ==
    /\ ax.pc = "idle"
    /\ jx.pc \in {"idle", "done"}
    /\ Len(job_descriptions) < MaxStoredJDs
    /\ \E raw_text \in texts :
         IF AnalyzeTooShort(raw_text)
         THEN LET outcome == [kind |-> "raised", error |-> "ValueError"] IN
              ax' = [IdleAx EXCEPT !.pc = "done", !.raw_text = raw_text,
                                   !.outcome = outcome, !.http = HttpResponse(outcome),
                                   !.stored_before = job_descriptions]
         ELSE ax' = [IdleAx EXCEPT !.pc = "llm", !.raw_text = raw_text,
                                   !.llm_calls = 1,
                                   !.stored_before = job_descriptions]
    /\ UNCHANGED job_descriptions
    /\ UNCHANGED notAnalyze

\* jd_analyzer.py lines 87-99 and 17-43, analyze_jd.py lines 35-38, jd.py lines
\* 50-77: the answer arrives, is parsed, the JobDescription is built and stored
AnalyzeLlmOk ==
    /\ ax.pc = "llm"
    /\ \E response \in LlmResponses :
         LET text == Strip(ax.raw_text)
             outcome == AnalyzeResult(text, ExtractStructuredData(text, response))
         IN /\ ax' = [ax EXCEPT !.pc = "done", !.generation = "ok",
                                !.response = response, !.outcome = outcome,
                                !.http = HttpResponse(outcome)]
            /\ job_descriptions' =
                 IF outcome.kind = "jd"
                 THEN StoreJobDescription(job_descriptions, outcome.jd)
                 ELSE job_descriptions
    /\ UNCHANGED notAnalyze

\* jd_analyzer.py lines 101-117, jd.py lines 79-86: the generation call raises
AnalyzeLlmFail ==
    /\ ax.pc = "llm"
    /\ \E error \in GenerationErrors :
         LET text == Strip(ax.raw_text)
             extracted == OnGenerationError(text, error)
             outcome == IF extracted.kind = "raised" THEN extracted
                        ELSE AnalyzeResult(text, extracted.value)
         IN /\ ax' = [ax EXCEPT !.pc = "done", !.generation = "failed",
                                !.outcome = outcome, !.http = HttpResponse(outcome)]
            /\ job_descriptions' =
                 IF outcome.kind = "jd"
                 THEN StoreJobDescription(job_descriptions, outcome.jd)
                 ELSE job_descriptions
    /\ UNCHANGED notAnalyze

\* the handler has answered; the next request may come
AnalyzeFinish ==
    /\ ax.pc = "done"
    /\ ax' = IdleAx
    /\ UNCHANGED job_descriptions
    /\ UNCHANGED notAnalyze

(***************************************************************************)
(* Resume text, scores and ranking: infra/matching/content_selector.py     *)
(*                                                                         *)
(* A text is a sequence of tokens (words, blanks, bullet marks); a keyword, *)
(* a skill and an industry are single words.  Scores are exact fractions.  *)
(***************************************************************************)
\* str.lower() of a word
Lower(w) ==
    CASE w = "Python" -> "python"
      [] w = "SQL" -> "sql"
      [] w = "MySQL" -> "mysql"
      [] w = "Built" -> "built"
      [] w = "Spearheaded" -> "spearheaded"
      [] w = "FinTech" -> "fintech"
      [] w = "Tech" -> "tech"
      [] w = "Led" -> "led"
      [] OTHER -> w
LowerText(text) == [i \in DOMAIN text |-> Lower(text[i])]

\* the words that hold another word
SubstringPairs == { <<"mysql", "sql">>, <<"MySQL", "SQL">>, <<"fintech", "tech">>,
                    <<"FinTech", "Tech">> }
Contains(w, sub) == w = sub \/ <<w, sub>> \in SubstringPairs
\* sub in text
In(sub, text) == \E i \in DOMAIN text : Contains(text[i], sub)

\* len(text)
RECURSIVE TextLen(_)
TextLen(text) == IF text = <<>> THEN 0 ELSE Len(Head(text)) + TextLen(Tail(text))

Blank == " "
NumberWords == {"3", "40%"}
UnitWords == {"users", "customers", "requests", "transactions"}

\* lines 179-198: a percentage, or a number followed by a unit
HasMetrics(text) ==
    \E i \in DOMAIN text :
        \/ text[i] = "40%"
        \/ /\ text[i] = "3"
           /\ \/ i + 1 \in DOMAIN text /\ text[i + 1] \in UnitWords
              \/ i + 2 \in DOMAIN text /\ text[i + 1] = Blank /\ text[i + 2] \in UnitWords

\* exact fractions with a positive denominator, in lowest terms
RECURSIVE GCD(_, _)
GCD(a, b) == IF b = 0 THEN a ELSE GCD(b, a % b)
Frac(n, d) == LET g == GCD(IF n < 0 THEN -n ELSE n, d) IN
              IF g = 0 THEN [n |-> 0, d |-> 1] ELSE [n |-> n \div g, d |-> d \div g]
FracOf(i) == [n |-> i, d |-> 1]
FracAdd(a, b) == Frac(a.n * b.d + b.n * a.d, a.d * b.d)
FracMul(a, b) == Frac(a.n * b.n, a.d * b.d)
FracLess(a, b) == a.n * b.d < b.n * a.d
FracMin(a, b) == IF FracLess(b, a) THEN b ELSE a

\* list.sort(key=score, reverse=True): descending, equal scores keep their order
InsertKeepingOrderReversed(sorted, p) ==
    LET k == Cardinality({i \in DOMAIN sorted : FracLess(p.score, sorted[i].score)})
    IN  SubSeq(sorted, 1, k) \o <<p>> \o SubSeq(sorted, k + 1, Len(sorted))
InsertKeepingOrder(sorted, p) ==
    LET k == Cardinality({i \in DOMAIN sorted : ~FracLess(sorted[i].score, p.score)})
    IN  SubSeq(sorted, 1, k) \o <<p>> \o SubSeq(sorted, k + 1, Len(sorted))
RECURSIVE SortByScoreDesc(_)
SortByScoreDesc(s) ==
    IF s = <<>> THEN <<>>
    ELSE InsertKeepingOrder(SortByScoreDesc(SubSeq(s, 1, Len(s) - 1)), s[Len(s)])

\* s[:n]: the first n items, or for a negative n all but the last -n
Take(s, n) ==
    IF n >= 0 THEN SubSeq(s, 1, IF n < Len(s) THEN n ELSE Len(s))
    ELSE SubSeq(s, 1, IF Len(s) + n > 0 THEN Len(s) + n ELSE 0)
Items(scored) == [i \in DOMAIN scored |-> scored[i].item]
Range(s) == {s[i] : i \in DOMAIN s}

\* lines 151-177: _score_bullet, in hundredths (keyword weights are in hundredths)
KeywordPoints(kw) ==
    IF kw.weight >= 80 THEN 50 * kw.weight
    ELSE IF kw.weight >= 60 THEN 30 * kw.weight
    ELSE 10 * kw.weight
RECURSIVE KeywordScore(_, _)
KeywordScore(keywords, bullet_text_lower) ==
    IF keywords = <<>> THEN 0
    ELSE (IF In(Lower(Head(keywords).text), bullet_text_lower)
          THEN KeywordPoints(Head(keywords)) ELSE 0)
         + KeywordScore(Tail(keywords), bullet_text_lower)
ScoreBulletSmallBonus(bullet, jd) ==
    Frac(KeywordScore(jd.keywords, LowerText(bullet.text))
         + (IF HasMetrics(bullet.text) THEN 1000 ELSE 0), 100)
ScoreBullet(bullet, jd) ==
    Frac(KeywordScore(jd.keywords, LowerText(bullet.text))
         + (IF HasMetrics(bullet.text) THEN 2000 ELSE 0), 100)

\* lines 119-149: _select_bullets
SelectBullets(experience, jd, max_bullets) ==
    Items(Take(SortByScoreDesc([i \in DOMAIN experience.bullets |->
                   [item |-> experience.bullets[i],
                    score |-> ScoreBullet(experience.bullets[i], jd)]]), max_bullets))

\* str.split(): the words of a text
RECURSIVE Split(_)
Split(text) ==
    IF text = <<>> THEN <<>>
    ELSE IF Head(text) = Blank THEN Split(Tail(text))
    ELSE <<Head(text)>> \o Split(Tail(text))

\* lines 57-117: _score_experience
JDSkills(jd) == {Lower(s) : s \in Range(jd.required_skills \o jd.preferred_skills)}
SkillPointsOverOwnSkills(experience, jd) ==
    IF experience.skills_used # <<>> /\ JDSkills(jd) # {}
    THEN Frac(40 * Cardinality({Lower(s) : s \in Range(experience.skills_used)}
                               \cap JDSkills(jd)),
              Cardinality({Lower(s) : s \in Range(experience.skills_used)}))
    ELSE FracOf(0)
SkillPoints(experience, jd) ==
    IF experience.skills_used # <<>> /\ JDSkills(jd) # {}
    THEN Frac(40 * Cardinality({Lower(s) : s \in Range(experience.skills_used)}
                               \cap JDSkills(jd)),
              Cardinality(JDSkills(jd)))
    ELSE FracOf(0)
KeywordMatchPoints(experience, jd) ==
    LET keyword_matches ==
            Cardinality({p \in (DOMAIN experience.bullets) \X (DOMAIN jd.keywords) :
                In(Lower(jd.keywords[p[2]].text),
                   LowerText(experience.bullets[p[1]].text))})
        max_possible_matches == Len(jd.keywords) * Len(experience.bullets)
    IN  IF jd.keywords # <<>> /\ experience.bullets # <<>>
        THEN FracMin(Frac(100 * keyword_matches, max_possible_matches), FracOf(30))
        ELSE FracOf(0)
IndustryPoints(experience, jd) ==
    IF experience.industry # "None" /\ jd.industry # "None"
    THEN IF Lower(experience.industry) = Lower(jd.industry) THEN FracOf(15)
         ELSE IF Contains(Lower(experience.industry), Lower(jd.industry)) THEN FracOf(10)
         ELSE FracOf(0)
    ELSE FracOf(0)
ResponsibilityPoints(experience, jd) ==
    LET resp_matches ==
            Cardinality({r \in DOMAIN jd.responsibilities :
                \E b \in DOMAIN experience.bullets :
                    \E word \in Range(Take(Split(LowerText(jd.responsibilities[r])), 3)) :
                        In(word, LowerText(experience.bullets[b].text))})
    IN  IF jd.responsibilities # <<>> /\ experience.bullets # <<>>
        THEN Frac(15 * resp_matches, Len(jd.responsibilities))
        ELSE FracOf(0)
ScoreExperience(experience, jd) ==
    FracAdd(FracAdd(SkillPoints(experience, jd), KeywordMatchPoints(experience, jd)),
            FracAdd(IndustryPoints(experience, jd), ResponsibilityPoints(experience, jd)))

\* lines 20-55: select_content.  The bullets are kept in a dict keyed by experience id:
\* of several selected experiences with one id, the last one's bullets stay.
SelectedExperiences(master_resume, jd, max_experiences) ==
    Items(Take(SortByScoreDesc([i \in DOMAIN master_resume.experiences |->
                   [item |-> master_resume.experiences[i],
                    score |-> ScoreExperience(master_resume.experiences[i], jd)]]),
               max_experiences))
SelectedBulletsMap(selected_exps, jd, max_bullets_per_exp) ==
    [id \in {selected_exps[i].id : i \in DOMAIN selected_exps} |->
        LET last == CHOOSE i \in DOMAIN selected_exps :
                        /\ selected_exps[i].id = id
                        /\ \A j \in DOMAIN selected_exps :
                               selected_exps[j].id = id => j <= i
        IN  SelectBullets(selected_exps[last], jd, max_bullets_per_exp)]

\* lines 200-247: calculate_match_score
MatchScore(master_resume, jd, selected_exp_ids) ==
    LET selected_exps == {e \in Range(master_resume.experiences) :
                             e.id \in Range(selected_exp_ids)}
        jd_keywords == {Lower(jd.keywords[k].text) : k \in DOMAIN jd.keywords}
        found_keywords ==
            {kw \in jd_keywords :
                \E e \in selected_exps :
                    \/ \E s \in Range(e.skills_used) : Lower(s) = kw
                    \/ \E b \in DOMAIN e.bullets : In(kw, LowerText(e.bullets[b].text))}
    IN  IF jd.keywords = <<>> THEN FracOf(50)
        ELSE FracMin(Frac(100 * Cardinality(found_keywords), Cardinality(jd_keywords)),
                     FracOf(100))

(***************************************************************************)
(* Bullet optimizer: infra/nlp/bullet_optimizer.py                         *)
(***************************************************************************)
TopKeywordCount == 15       \* bullet_optimizer.py line 33: jd.keywords[:15]
TopKeywordWeight == 60      \* bullet_optimizer.py line 33: kw.weight >= 0.6, in hundredths

BulletMarks == {"-", "*"}
StrongVerbs == {"spearheaded", "architected", "engineered", "orchestrated", "pioneered",
                "transformed", "optimized", "accelerated", "championed", "streamlined",
                "revolutionized"}

\* line 33: the texts of the first 15 keywords that weigh at least 0.6
RECURSIVE HeavyTexts(_)
HeavyTexts(keywords) ==
    IF keywords = <<>> THEN <<>>
    ELSE (IF Head(keywords).weight >= TopKeywordWeight THEN <<Head(keywords).text>>
          ELSE <<>>) \o HeavyTexts(Tail(keywords))
TopKeywords(jd) == HeavyTexts(Take(jd.keywords, TopKeywordCount))

\* str.strip() and str.lstrip(marks) of a text
RECURSIVE DropLeading(_, _)
DropLeading(text, words) ==
    IF text # <<>> /\ Head(text) \in words THEN DropLeading(Tail(text), words) ELSE text
RECURSIVE DropTrailing(_, _)
DropTrailing(text, words) ==
    IF text # <<>> /\ text[Len(text)] \in words
    THEN DropTrailing(SubSeq(text, 1, Len(text) - 1), words) ELSE text
StripText(text) == DropTrailing(DropLeading(text, {Blank}), {Blank})

\* lines 99-104: clean up the response
CleanResponse(optimized) == StripText(DropLeading(StripText(optimized), BulletMarks))

\* lines 106-108: any error of the generation call is caught and the original text
\* is returned
GenerationFailedCleaned(original_text, error) ==
    [kind |-> "returned", text |-> CleanResponse(original_text)]
GenerationFailed(original_text, error) ==
    [kind |-> "returned", text |-> original_text]

\* lines 91-104: the generation call returned
GenerationReturned(response) == [kind |-> "returned", text |-> CleanResponse(response)]

\* lines 110-160: _identify_improvements
Improvement(kind, words) == [kind |-> kind, words |-> words]
HasNumber(text) == \E i \in DOMAIN text : text[i] \in NumberWords
RECURSIVE NewKeywords(_, _, _)
NewKeywords(keywords, original_lower, optimized_lower) ==
    IF keywords = <<>> THEN <<>>
    ELSE (IF ~In(Lower(Head(keywords)), original_lower)
             /\ In(Lower(Head(keywords)), optimized_lower)
          THEN <<Head(keywords)>> ELSE <<>>)
         \o NewKeywords(Tail(keywords), original_lower, optimized_lower)
IdentifyImprovements(original, optimized, keywords) ==
    LET new_keywords == NewKeywords(keywords, LowerText(original), LowerText(optimized))
        improvements ==
            (IF ~HasNumber(original) /\ HasNumber(optimized)
             THEN <<Improvement("Added quantifiable metrics", <<>>)>> ELSE <<>>)
            \o (IF new_keywords # <<>>
                THEN <<Improvement("Added keywords", Take(new_keywords, 3))>> ELSE <<>>)
            \o (IF \E verb \in StrongVerbs : In(verb, LowerText(optimized))
                THEN <<Improvement("Used stronger action verb", <<>>)>> ELSE <<>>)
            \o (IF 5 * TextLen(optimized) > 6 * TextLen(original)
                THEN <<Improvement("Added more specific details", <<>>)>> ELSE <<>>)
    IN  IF improvements = <<>> THEN <<Improvement("Enhanced clarity and impact", <<>>)>>
        ELSE improvements

\* line 46: the top keywords found in the optimized text
RECURSIVE KeywordMatches(_, _)
KeywordMatches(keywords, optimized_lower) ==
    IF keywords = <<>> THEN <<>>
    ELSE (IF In(Lower(Head(keywords)), optimized_lower) THEN <<Head(keywords)>> ELSE <<>>)
         \o KeywordMatches(Tail(keywords), optimized_lower)

\* lines 42-55: optimize_bullet, once the optimized text is there
BulletOptimizationOfOptimized(bullet, jd, optimized_text) ==
    [bullet_id |-> bullet.id,
     original_text |-> optimized_text,
     optimized_text |-> optimized_text,
     improvements |-> IdentifyImprovements(bullet.text, optimized_text, TopKeywords(jd)),
     keyword_matches |-> KeywordMatches(TopKeywords(jd), LowerText(optimized_text)),
     status |-> "pending"]
BulletOptimizationAccepted(bullet, jd, optimized_text) ==
    [bullet_id |-> bullet.id,
     original_text |-> bullet.text,
     optimized_text |-> optimized_text,
     improvements |-> IdentifyImprovements(bullet.text, optimized_text, TopKeywords(jd)),
     keyword_matches |-> KeywordMatches(TopKeywords(jd), LowerText(optimized_text)),
     status |-> IF optimized_text = bullet.text THEN "pending" ELSE "accepted"]
BulletOptimization(bullet, jd, optimized_text) ==
    [bullet_id |-> bullet.id,
     original_text |-> bullet.text,
     optimized_text |-> optimized_text,
     improvements |-> IdentifyImprovements(bullet.text, optimized_text, TopKeywords(jd)),
     keyword_matches |-> KeywordMatches(TopKeywords(jd), LowerText(optimized_text)),
     status |-> "pending"]

(***************************************************************************)
(* Tailoring run: application/use_cases/tailor_resume.py                   *)
(***************************************************************************)
MaxExperiences == 4         \* tailor_resume.py line 46
MaxBulletsPerExp == 4       \* tailor_resume.py line 47
MaxEducation == 2           \* tailor_resume.py line 87
MaxSkills == 15             \* tailor_resume.py lines 160-162

\* lines 53-67: the bullets to optimize, experience by experience, each looked up in
\* the dict under its experience's id
RECURSIVE BulletsToOptimize(_, _)
BulletsToOptimize(selected_exps, selected_bullets_map) ==
    IF selected_exps = <<>> THEN <<>>
    ELSE LET exp == Head(selected_exps)
             bullets == selected_bullets_map[exp.id]
         IN  [i \in DOMAIN bullets |->
                 [bullet |-> bullets[i],
                  context |-> <<exp.title, " at ", exp.company>>]]
             \o BulletsToOptimize(Tail(selected_exps), selected_bullets_map)

\* lines 96-129: _calculate_ats_score
MentionsMetric(improvement) ==
    \/ improvement.kind = "Added quantifiable metrics"
    \/ \E w \in Range(improvement.words) :
           Contains(Lower(w), "metric") \/ Contains(Lower(w), "quantif")
RECURSIVE SumKeywordMatches(_)
SumKeywordMatches(optimizations) ==
    IF optimizations = <<>> THEN 0
    ELSE Len(Head(optimizations).keyword_matches) + SumKeywordMatches(Tail(optimizations))
CalculateAtsScoreUnclamped(match_score, optimizations) ==
    LET n == Len(optimizations)
        metrics_count == Cardinality({i \in DOMAIN optimizations :
                             \E k \in DOMAIN optimizations[i].improvements :
                                 MentionsMetric(optimizations[i].improvements[k])})
        base == FracMul(match_score, Frac(6, 10))
        metrics_bonus == IF n > 0 THEN Frac(20 * metrics_count, n) ELSE FracOf(0)
        keyword_bonus == IF n > 0
                         THEN Frac(20 * SumKeywordMatches(optimizations), 3 * n)
                         ELSE FracOf(0)
    IN  FracAdd(FracAdd(base, metrics_bonus), keyword_bonus)
CalculateAtsScore(match_score, optimizations) ==
    LET n == Len(optimizations)
        metrics_count == Cardinality({i \in DOMAIN optimizations :
                             \E k \in DOMAIN optimizations[i].improvements :
                                 MentionsMetric(optimizations[i].improvements[k])})
        base == FracMul(match_score, Frac(6, 10))
        metrics_bonus == IF n > 0 THEN Frac(20 * metrics_count, n) ELSE FracOf(0)
        keyword_bonus == IF n > 0
                         THEN FracMin(Frac(20 * SumKeywordMatches(optimizations), 3 * n),
                                      FracOf(20))
                         ELSE FracOf(0)
    IN  FracMin(FracAdd(FracAdd(base, metrics_bonus), keyword_bonus), FracOf(100))

\* lines 131-164: _select_skills
RECURSIVE SkillsWhere(_, _, _)
SkillsWhere(names, jd_skills, matched) ==
    IF names = <<>> THEN <<>>
    ELSE (IF Head(names) # "" /\ ((Lower(Head(names)) \in jd_skills) = matched)
          THEN <<Head(names)>> ELSE <<>>)
         \o SkillsWhere(Tail(names), jd_skills, matched)
SelectSkillsInOriginalOrder(master_resume, jd) ==
    Take(SelectSeq(master_resume.skills, LAMBDA name : name # ""), MaxSkills)
SelectSkills(master_resume, jd) ==
    LET selected == Take(SkillsWhere(master_resume.skills, JDSkills(jd), TRUE), MaxSkills)
    IN  selected \o Take(SkillsWhere(master_resume.skills, JDSkills(jd), FALSE),
                         MaxSkills - Len(selected))

\* lines 69-94: the TailoredResume returned
TailoredResume(master_resume, jd, selected_exps, all_optimizations) ==
    LET selected_exp_ids == [i \in DOMAIN selected_exps |-> selected_exps[i].id]
        match_score == MatchScore(master_resume, jd, selected_exp_ids)
    IN  [master_resume_id |-> master_resume.id,
         jd_id |-> jd.id,
         selected_experience_ids |-> selected_exp_ids,
         selected_bullet_optimizations |-> all_optimizations,
         selected_education_ids |-> Take(master_resume.education, MaxEducation),
         selected_skills |-> SelectSkills(master_resume, jd),
         match_score |-> match_score,
         ats_score |-> CalculateAtsScore(match_score, all_optimizations)]

\* domain/models.py: BulletPoint, Experience, MasterResume, JobDescription.  An id the
\* client left out is None: routes/master.py passes id=schema.id to the constructors.
BulletPoint(id, text) == [id |-> id, text |-> text]
Experience(id, title, company, bullets, skills_used, industry) ==
    [id |-> id, title |-> title, company |-> company, bullets |-> bullets,
     skills_used |-> skills_used, industry |-> industry]
MasterResume(id, experiences, education, skills) ==
    [id |-> id, experiences |-> experiences, education |-> education, skills |-> skills]
JobDescription(id, required_skills, preferred_skills, responsibilities, industry, keywords) ==
    [id |-> id, required_skills |-> required_skills, preferred_skills |-> preferred_skills,
     responsibilities |-> responsibilities, industry |-> industry, keywords |-> keywords]

\* The master resumes and JDs the runs are given.
MasterWithIds ==
    MasterResume("m1",
        << Experience("e1", "Manager", "Initech",
               << BulletPoint("b1", <<"Managed", " ", "3", " ", "users">>) >>,
               <<>>, "None"),
           Experience("e2", "Engineer", "Acme",
               << BulletPoint("b2", <<"Improved", " ", "MySQL", " ", "40%">>),
                  BulletPoint("b3", <<" ", "-", " ", "Built", " ", "Python", " ",
                                      "services">>) >>,
               <<"Python", "SQL">>, "FinTech") >>,
        <<"ed1", "ed2", "ed3">>, <<"Go", "", "python">>)
MasterWithoutIds ==
    MasterResume("m2",
        << Experience("None", "Engineer", "Acme",
               << BulletPoint("None", <<"Built", " ", "Python", " ", "services">>) >>,
               <<"Python">>, "Tech"),
           Experience("None", "Writer", "Initech",
               << BulletPoint("None", <<"Wrote", " ", "docs">>) >>,
               <<>>, "None") >>,
        <<>>, <<"SQL">>)
MasterWithMany ==
    MasterResume("m3",
        << Experience("e1", "Intern", "Acme", <<>>, <<>>, "None"),
           Experience("e2", "Engineer", "Acme",
               << BulletPoint("b1", <<"Wrote", " ", "docs">>),
                  BulletPoint("b2", <<"Built", " ", "Python">>),
                  BulletPoint("b3", <<"Ran", " ", "standups">>),
                  BulletPoint("b4", <<"Hired", " ", "3">>),
                  BulletPoint("b5", <<"Cut", " ", "costs", " ", "40%">>) >>,
               <<"SQL">>, "Tech"),
           Experience("e3", "Clerk", "Initech", <<>>, <<>>, "None"),
           Experience("e4", "Analyst", "Initech", <<>>, <<"Python">>, "None"),
           Experience("e5", "Tester", "Initech", <<>>, <<>>, "None") >>,
        <<"ed1">>, <<>>)
MasterResumes == {MasterWithIds, MasterWithoutIds, MasterWithMany}

KeywordJD ==
    JobDescription("jd1", <<"Python">>, <<"SQL">>, << <<"Built", " ", "services">> >>, "Tech",
        << Kw("Python", 90, "required"), Kw("SQL", 70, "preferred"),
           Kw("docs", 50, "nice_to_have") >>)
BareJD == JobDescription("jd2", <<>>, <<>>, <<>>, "None", <<>>)
TailorJDs == {KeywordJD, BareJD}

\* what the generation call answers to a bullet prompt, and how it fails
BulletResponses ==
    { <<" ", "-", " ", "Spearheaded", " ", "Python", " ", "services", " ", "40%", " ">>,
      <<"Built", " ", "SQL">> }
BulletErrors == {"RuntimeError", "TimeoutError"}

IdleTx == [pc |-> "idle", master_resume |-> MasterResume("", <<>>, <<>>, <<>>),
           jd |-> BareJD, selected_exps |-> <<>>, to_optimize |-> <<>>, k |-> 0,
           generations |-> <<>>, all_optimizations |-> <<>>,
           result |-> [status |-> "none"]]

TailorInit == tx = IdleTx

\* tailor_resume.py lines 61-65 and bullet_optimizer.py lines 181-182: the arguments
\* of optimize_bullet
OptimizeBulletArgs(run) ==
    [bullet |-> run.to_optimize[run.k].bullet,
     jd |-> run.jd,
     experience_context |-> run.to_optimize[run.k].context]

\* tailor_resume.py lines 69-94, or the error leaving execute
AfterBullet(run, generation, generated) ==
    IF generated.kind = "raised"
    THEN [run EXCEPT !.pc = "done", !.generations = Append(@, generation),
                     !.result = Raised(generated.error)]
    ELSE LET bullet == run.to_optimize[run.k].bullet
             all_optimizations ==
                 Append(run.all_optimizations,
                        BulletOptimization(bullet, run.jd, generated.text))
         IN  IF run.k < Len(run.to_optimize)
             THEN [run EXCEPT !.k = @ + 1, !.generations = Append(@, generation),
                              !.all_optimizations = all_optimizations]
             ELSE [run EXCEPT !.pc = "done", !.generations = Append(@, generation),
                              !.all_optimizations = all_optimizations,
                              !.result = Returned(TailoredResume(run.master_resume, run.jd,
                                              run.selected_exps, all_optimizations))]

\* tailor_resume.py lines 42-65: select the content and send the first bullet's prompt
\* (lines 69-94 when there is no bullet to optimize)
TailorStart ==
    /\ tx.pc = "idle"
    /\ \E master_resume \in MasterResumes, jd \in TailorJDs :
         LET selected_exps == SelectedExperiences(master_resume, jd, MaxExperiences)
             selected_bullets_map ==
                 SelectedBulletsMap(selected_exps, jd, MaxBulletsPerExp)
             to_optimize == BulletsToOptimize(selected_exps, selected_bullets_map)
             run == [IdleTx EXCEPT !.master_resume = master_resume, !.jd = jd,
                                   !.selected_exps = selected_exps,
                                   !.to_optimize = to_optimize]
         IN  tx' = IF to_optimize = <<>>
                   THEN [run EXCEPT !.pc = "done",
                                    !.result = Returned(TailoredResume(master_resume, jd,
                                                            selected_exps, <<>>))]
                   ELSE [run EXCEPT !.pc = "gen", !.k = 1]
    /\ UNCHANGED notTailor

\* bullet_optimizer.py lines 92-104 and 42-55, tailor_resume.py lines 61-94: the
\* generation call returns; the bullet's optimization is appended and the next prompt
\* sent, or the run completes
TailorGenOk ==
    /\ tx.pc = "gen"
    /\ \E response \in BulletResponses :
         tx' = AfterBullet(tx, "ok", GenerationReturned(response))
    /\ UNCHANGED notTailor

\* bullet_optimizer.py lines 106-108 and 42-55, tailor_resume.py lines 61-94: the
\* generation call raises
TailorGenFail ==
    /\ tx.pc = "gen"
    /\ \E error \in BulletErrors :
         tx' = AfterBullet(tx, "failed",
                           GenerationFailed(tx.to_optimize[tx.k].bullet.text, error))
    /\ UNCHANGED notTailor

\* execute has returned; the next run may start
TailorFinish ==
    /\ tx.pc = "done"
    /\ tx' = IdleTx
    /\ UNCHANGED notTailor

(***************************************************************************)
(* _calculate_ats_score called on its own, with any match score and any    *)
(* list of optimizations                                                   *)
(***************************************************************************)
\* match scores: 0, 100/3, 50, 200/3 and 100
AtsMatchScores == UNION {{Frac(100 * k, n) : k \in 0..n} : n \in 1..3}
AtsImprovements ==
    { <<Improvement("Added quantifiable metrics", <<>>)>>,
      <<Improvement("Added keywords", <<"Metrics">>),
        Improvement("Used stronger action verb", <<>>)>>,
      <<Improvement("Enhanced clarity and impact", <<>>)>> }
AtsKeywordMatches ==
    { <<>>, <<"Python", "SQL", "AWS">>, <<"Python", "SQL", "AWS", "Go", "Rust">> }
AtsOptimizations ==
    { [bullet_id |-> "b1", original_text |-> <<>>, optimized_text |-> <<>>,
       improvements |-> i, keyword_matches |-> k, status |-> "pending"] :
      i \in AtsImprovements, k \in AtsKeywordMatches }
AtsLists == UNION {[1..n -> AtsOptimizations] : n \in 0..MaxOptimizations}

IdleAt == [pc |-> "idle", match_score |-> FracOf(0), optimizations |-> <<>>,
           ats_score |-> FracOf(0)]

AtsInit == at = IdleAt

\* tailor_resume.py lines 96-129: _calculate_ats_score(match_score, optimizations)
AtsCalculate ==
    /\ at.pc = "idle"
    /\ \E match_score \in AtsMatchScores, optimizations \in AtsLists :
         at' = [pc |-> "done", match_score |-> match_score,
                optimizations |-> optimizations,
                ats_score |-> CalculateAtsScore(match_score, optimizations)]
    /\ UNCHANGED notAts

\* the score is returned; the next call may start
AtsReturn ==
    /\ at.pc = "done"
    /\ at' = IdleAt
    /\ UNCHANGED notAts

(***************************************************************************)
(* Resume-wide optimization:                                               *)
(* application/use_cases/resume_optimization_enhanced.py                   *)
(*                                                                         *)
(* A run is called without a resume_version_id, so nothing is saved.  Of   *)
(* an optimization the original and optimized texts and the added keywords *)
(* are kept.                                                               *)
(***************************************************************************)
StarKeywordCount == 5       \* lines 103, 119: target_keywords[:5]
MissingKeywordCount == 3    \* line 178: keywords[:3]

\* lines 154-165: _has_star_structure
ActionVerbs == {"developed", "implemented", "designed", "built", "led", "managed",
                "improved", "optimized", "created", "architected"}
ResultWords == {"40%", "increased", "reduced", "improved"}
HasStarStructure(bullet) ==
    /\ \E verb \in ActionVerbs : In(verb, LowerText(bullet))
    /\ \E i \in DOMAIN bullet : bullet[i] \in ResultWords

\* lines 167-176: _has_quantification
QuantityUnits == {"users", "customers", "clients", "hours", "days", "months"}
HasQuantification(bullet) ==
    \E i \in DOMAIN bullet :
        \/ bullet[i] = "40%"
        \/ /\ bullet[i] = "3"
           /\ \/ i + 1 \in DOMAIN bullet /\ bullet[i + 1] \in QuantityUnits
              \/ i + 2 \in DOMAIN bullet /\ bullet[i + 1] = Blank
                                          /\ bullet[i + 2] \in QuantityUnits

\* lines 178-183: _has_missing_keywords
HasMissingKeywords(bullet, keywords) ==
    \E kw \in Range(Take(keywords, MissingKeywordCount)) :
        ~In(Lower(kw), LowerText(bullet))

\* lines 95-99
NeedsOptimization(bullet, target_keywords) ==
    \/ ~HasStarStructure(bullet)
    \/ ~HasQuantification(bullet)
    \/ HasMissingKeywords(bullet, target_keywords)

\* lines 86-90: the bullet points of an experience, or the stripped non-empty lines
\* of its description
RECURSIVE StrippedLines(_)
StrippedLines(lines) ==
    IF lines = <<>> THEN <<>>
    ELSE (IF StripText(Head(lines)) # <<>> THEN <<StripText(Head(lines))>> ELSE <<>>)
         \o StrippedLines(Tail(lines))
BulletPointsOf(experience) ==
    IF experience.bullet_points = <<>> /\ experience.description # <<>>
    THEN StrippedLines(experience.description)
    ELSE experience.bullet_points

\* lines 59-68, 92-101: the bullets that are sent to the optimizer, experience by
\* experience
RECURSIVE Needing(_, _)
Needing(bullets, target_keywords) ==
    IF bullets = <<>> THEN <<>>
    ELSE (IF NeedsOptimization(Head(bullets), target_keywords)
          THEN <<Head(bullets)>> ELSE <<>>)
         \o Needing(Tail(bullets), target_keywords)
RECURSIVE StarBulletsToOptimize(_, _, _)
StarBulletsToOptimize(experiences, exp_index, target_keywords) ==
    IF experiences = <<>> THEN <<>>
    ELSE LET exp == Head(experiences)
             bullets == Needing(BulletPointsOf(exp), target_keywords)
         IN  [i \in DOMAIN bullets |->
                 [bullet |-> bullets[i], exp_index |-> exp_index,
                  company |-> exp.company, title |-> exp.title]]
             \o StarBulletsToOptimize(Tail(experiences), exp_index + 1, target_keywords)

\* line 113: optimized.split()
RECURSIVE Words(_)
Words(text) ==
    IF text = <<>> THEN <<>>
    ELSE (IF Head(text) = Blank THEN <<>> ELSE <<Head(text)>>) \o Words(Tail(text))

\* line 114: first_word[0].isupper()
CapitalWords == {"Led", "Built", "Spearheaded", "Python", "SQL"}
FirstIsUpper(word) == word \in CapitalWords

\* lines 112-115: the first word of the optimized text joins used_verbs when it
\* begins with a capital
UsedVerbsAfter(used_verbs, first_word) ==
    IF first_word # "" /\ FirstIsUpper(first_word)
    THEN Append(used_verbs, first_word) ELSE used_verbs

\* lines 102-111: the arguments of llm.optimize_bullet_star
OptimizeBulletStarArgs(run) ==
    LET item == run.to_optimize[run.k]
    IN  [bullet |-> item.bullet,
         target_keywords |-> Take(run.target_keywords, StarKeywordCount),
         context |-> [company |-> item.company, title |-> item.title,
                      job_title |-> run.job_title],
         used_verbs |-> run.used_verbs]

\* lines 117-121, 132-150: the optimization appended for a bullet
StarOptimization(item, optimized, target_keywords) ==
    [section |-> "experience",
     subsection |-> <<item.company, " - ", item.title>>,
     original_text |-> item.bullet,
     optimized_text |-> optimized,
     keywords_added |-> NewKeywords(Take(target_keywords, StarKeywordCount),
                                    LowerText(item.bullet), LowerText(optimized))]

\* EnhancedLLMService.optimize_bullet_star: the rewritten bullet, or the bullet as it
\* was when the generation fails
StarResponses == { <<"Led", " ", "Python", " ", "SQL", " ", "40%">>,
                   <<"led", " ", "Python">>,
                   <<"-", " ", "Built", " ", "SQL">>,
                   <<>>, <<Blank>> }
StarOutcomes == [kind : {"returned"}, text : StarResponses] \cup {[kind |-> "failed"]}
OptimizeBulletStar(args, outcome) ==
    IF outcome.kind = "failed" THEN args.bullet ELSE outcome.text

StarExperience(company, title, bullet_points, description) ==
    [company |-> company, title |-> title, bullet_points |-> bullet_points,
     description |-> description]
StarResumes ==
    { << StarExperience("Acme", "Engineer",
             << <<"wrote", " ", "docs">> >>, <<>>),
         StarExperience("Initech", "Lead",
             << <<"Built", " ", "Python", " ", "SQL", " ", "40%">>,
                <<"Led", " ", "standups">> >>, <<>>) >>,
      << StarExperience("Acme", "Engineer", <<>>,
             << <<" ", "Built", " ", "Python">>, <<Blank>> >>),
         StarExperience("Initech", "Clerk", <<>>, <<>>) >>,
      << StarExperience("Acme", "Engineer",
             << <<"Built", " ", "Python", " ", "SQL", " ", "40%">> >>, <<>>) >> }
StarKeywords == <<"Python", "SQL">>

IdleOx == [pc |-> "idle", resume_data |-> <<>>, target_keywords |-> <<>>,
           job_title |-> "", to_optimize |-> <<>>, k |-> 0, used_verbs |-> <<>>,
           optimizations |-> <<>>, result |-> [status |-> "none"]]

OptimizeInit == ox = IdleOx

\* lines 36-68, 84-111: optimize_resume begins and sends the first bullet that
\* needs optimization (lines 70-74 when none does)
OptimizeStart ==
    /\ ox.pc = "idle"
    /\ \E resume_data \in StarResumes :
         LET to_optimize == StarBulletsToOptimize(resume_data, 0, StarKeywords)
             run == [IdleOx EXCEPT !.resume_data = resume_data,
                                   !.target_keywords = StarKeywords,
                                   !.job_title = "Engineer",
                                   !.to_optimize = to_optimize]
         IN  ox' = IF to_optimize = <<>>
                   THEN [run EXCEPT !.pc = "done", !.result = Returned(<<>>)]
                   ELSE [run EXCEPT !.pc = "call", !.k = 1]
    /\ UNCHANGED notOptimize

\* lines 102-150, 59-74: optimize_bullet_star returns; the first word is taken, the
\* optimization appended and the next bullet sent, or the run completes.  A text of
\* blanks only has no first word: optimized.split()[0] raises IndexError.
OptimizeStarReturns ==
    /\ ox.pc = "call"
    /\ \E outcome \in StarOutcomes :
         LET optimized == OptimizeBulletStar(OptimizeBulletStarArgs(ox), outcome)
             words == Words(optimized)
             first_word == IF optimized # <<>> THEN words[1] ELSE ""
             optimizations ==
                 Append(ox.optimizations,
                        StarOptimization(ox.to_optimize[ox.k], optimized,
                                         ox.target_keywords))
         IN  ox' = IF optimized # <<>> /\ words = <<>>
                   THEN [ox EXCEPT !.pc = "done", !.result = Raised("IndexError")]
                   ELSE IF ox.k < Len(ox.to_optimize)
                   THEN [ox EXCEPT !.k = @ + 1,
                                   !.used_verbs = UsedVerbsAfter(@, first_word),
                                   !.optimizations = optimizations]
                   ELSE [ox EXCEPT !.pc = "done",
                                   !.used_verbs = UsedVerbsAfter(@, first_word),
                                   !.optimizations = optimizations,
                                   !.result = Returned(optimizations)]
    /\ UNCHANGED notOptimize

\* optimize_resume has returned; the next run may start
OptimizeFinish ==
    /\ ox.pc = "done"
    /\ ox' = IdleOx
    /\ UNCHANGED notOptimize

(***************************************************************************)
(* The scoring and selecting functions called on their own:                *)
(* calculate_match_score, _score_experience, _score_bullet (content        *)
(* selector) and _select_skills (tailoring)                                *)
(***************************************************************************)
IdleFn == [pc |-> "idle", op |-> "none"]

ScoringInit == fn = IdleFn

\* a master resume whose only match with the JD is inside a skill name
MasterSkillOnly ==
    MasterResume("m4",
        << Experience("e1", "Engineer", "Acme", <<>>, <<"MySQL">>, "Tech"),
           Experience("e2", "Writer", "Initech",
               << BulletPoint("b1", <<"Wrote", " ", "docs">>) >>, <<>>, "None") >>,
        <<>>, <<>>)
MatchResumes == MasterResumes \cup {MasterSkillOnly}

\* tailor_resume.py lines 43-48, 70-75 and content_selector.py lines 200-247: the
\* experiences are selected and calculate_match_score is called with their ids
MatchCalculate ==
    /\ fn.pc = "idle"
    /\ \E master_resume \in MatchResumes, jd \in TailorJDs, max_experiences \in 0..MaxLimit :
         LET selected_exps == SelectedExperiences(master_resume, jd, max_experiences)
             selected_exp_ids == [i \in DOMAIN selected_exps |-> selected_exps[i].id]
         IN  fn' = [pc |-> "done", op |-> "calculate_match_score",
                    master_resume |-> master_resume, jd |-> jd,
                    max_experiences |-> max_experiences,
                    selected_exps |-> selected_exps,
                    selected_exp_ids |-> selected_exp_ids,
                    result |-> MatchScore(master_resume, jd, selected_exp_ids)]
    /\ UNCHANGED notScoring

\* the skills_used lists an experience is scored with
SkillLists == { <<>>, <<"Go">>, <<"Python">>, <<"python", "Go">>, <<"Python", "SQL">>,
                <<"SQL", "Python", "Python">>, <<"MySQL">> }
ScoredExperiences == UNION {Range(r.experiences) : r \in MatchResumes}

\* content_selector.py lines 57-117: _score_experience on two experiences that
\* differ in their skills_used only
ScoreExperiencePair ==
    /\ fn.pc = "idle"
    /\ \E experience \in ScoredExperiences, jd \in TailorJDs,
          skills_a \in SkillLists, skills_b \in SkillLists :
         LET a == [experience EXCEPT !.skills_used = skills_a]
             b == [experience EXCEPT !.skills_used = skills_b]
         IN  fn' = [pc |-> "done", op |-> "_score_experience", jd |-> jd,
                    a |-> a, b |-> b,
                    score_a |-> ScoreExperience(a, jd),
                    score_b |-> ScoreExperience(b, jd)]
    /\ UNCHANGED notScoring

\* the bullet texts that are scored
ScoredTexts ==
    { <<>>,
      <<"Built", " ", "Python">>,
      <<"Built", " ", "Python", " ", "40%">>,
      <<"Built", " ", "Python", " ", "3", " ", "users">>,
      <<"Improved", " ", "MySQL">>,
      <<"Improved", " ", "MySQL", " ", "40%">>,
      <<"Wrote", " ", "docs", " ", "3">>,
      <<"Wrote", " ", "docs", " ", "3", "users">> }

\* content_selector.py lines 151-198: _score_bullet on two bullets
ScoreBulletPair ==
    /\ fn.pc = "idle"
    /\ \E jd \in TailorJDs, text_a \in ScoredTexts, text_b \in ScoredTexts :
         LET a == BulletPoint("b1", text_a)
             b == BulletPoint("b2", text_b)
         IN  fn' = [pc |-> "done", op |-> "_score_bullet", jd |-> jd, a |-> a, b |-> b,
                    score_a |-> ScoreBullet(a, jd), score_b |-> ScoreBullet(b, jd)]
    /\ UNCHANGED notScoring

\* the skill names of a master resume ("" stands for a skill without a name): few,
\* more than MaxSkills matching ones, and unmatched ones before a few matching ones
SkillNameLists ==
    { <<>>,
      <<"Go", "", "python">>,
      <<"Python", "sql", "SQL", "python", "Python", "sql", "SQL", "python", "Python",
        "sql", "SQL", "python", "Python", "sql", "SQL", "python", "Go">>,
      <<"Go", "Rust", "C", "Java", "Perl", "Ruby", "Lua", "Bash", "Swift", "Dart",
        "SQL", "python", "Elm", "Python", "Zig", "Nim", "R", "D">> }

\* tailor_resume.py lines 131-164: _select_skills
SelectSkillsCall ==
    /\ fn.pc = "idle"
    /\ \E skills \in SkillNameLists, jd \in TailorJDs :
         LET master_resume == MasterResume("m5", <<>>, <<>>, skills)
         IN  fn' = [pc |-> "done", op |-> "_select_skills",
                    master_resume |-> master_resume, jd |-> jd,
                    result |-> SelectSkills(master_resume, jd)]
    /\ UNCHANGED notScoring

\* the function returns; the next call may start
ScoringReturn ==
    /\ fn.pc = "done"
    /\ fn' = IdleFn
    /\ UNCHANGED notScoring

(***************************************************************************)
(* select_content called on its own, with any limits                       *)
(***************************************************************************)
Limits == (0 - MaxLimit)..MaxLimit

IdleSc == [pc |-> "idle", master_resume |-> MasterResume("", <<>>, <<>>, <<>>),
           jd |-> BareJD, max_experiences |-> 0, max_bullets_per_exp |-> 0,
           selected_exps |-> <<>>, selected_bullets_map |-> [id \in {} |-> <<>>]]

SelectInit == sc = IdleSc

\* content_selector.py lines 20-55: select_content(master_resume, jd, max_experiences,
\* max_bullets_per_exp)
SelectContent ==
    /\ sc.pc = "idle"
    /\ \E master_resume \in MasterResumes, jd \in TailorJDs,
          max_experiences \in Limits, max_bullets_per_exp \in Limits :
         LET selected_exps == SelectedExperiences(master_resume, jd, max_experiences) IN
         sc' = [pc |-> "done", master_resume |-> master_resume, jd |-> jd,
                max_experiences |-> max_experiences,
                max_bullets_per_exp |-> max_bullets_per_exp,
                selected_exps |-> selected_exps,
                selected_bullets_map |->
                    SelectedBulletsMap(selected_exps, jd, max_bullets_per_exp)]
    /\ UNCHANGED notSelect

\* the caller has the result; the next call may come
SelectReturn ==
    /\ sc.pc = "done"
    /\ sc' = IdleSc
    /\ UNCHANGED notSelect

(***************************************************************************)
(* Specifications.                                                         *)
(***************************************************************************)
\* The gateway, one call at a time.
Init ==
    /\ \E retries \in 1..MaxRetriesCap, fb \in BOOLEAN : GatewayInit(retries, fb)
    /\ CachedInit
    /\ AnalyzeInit
    /\ TailorInit
    /\ SelectInit
    /\ CacheInit
    /\ CleanupInit
    /\ AtsInit
    /\ OptimizeInit
    /\ ScoringInit
    /\ PairInit

Next ==
    \/ GenStart(SeqCaller)
    \/ GenAttemptOk(SeqCaller)
    \/ GenAttemptFail(SeqCaller)
    \/ GenWake(SeqCaller)
    \/ GenFallbackOk(SeqCaller)
    \/ GenFallbackFail(SeqCaller)
    \/ GenFinish(SeqCaller)
    \/ ResetToPrimary

Spec == Init /\ [][Next]_vars

\* The cached JD analysis, one call at a time, with the clock and the sweep.
InitCached ==
    /\ GatewayInit(2, TRUE)
    /\ CachedInit
    /\ AnalyzeInit
    /\ TailorInit
    /\ SelectInit
    /\ CacheInit
    /\ CleanupInit
    /\ AtsInit
    /\ OptimizeInit
    /\ ScoringInit
    /\ PairInit

NextCached ==
    \/ ExecStart(JDTexts)
    \/ ExecDbSelect
    \/ ExecDbSelectFail
    \/ ExecLlmOk
    \/ ExecLlmFail
    \/ ExecCommit
    \/ ExecCommitFail
    \/ ExecRefresh
    \/ ExecRefreshFail
    \/ ExecFinish
    \/ Tick(TickSteps)
    \/ Sweep

SpecCached == InitCached /\ [][NextCached]_vars

\* The JD analyzer behind /jd/analyze, one request at a time.
InitAnalyze ==
    /\ GatewayInit(2, TRUE)
    /\ CachedInit
    /\ AnalyzeInit
    /\ TailorInit
    /\ SelectInit
    /\ CacheInit
    /\ CleanupInit
    /\ AtsInit
    /\ OptimizeInit
    /\ ScoringInit
    /\ PairInit

NextAnalyze ==
    \/ AnalyzeStart(AnalyzerTexts)
    \/ AnalyzeLlmOk
    \/ AnalyzeLlmFail
    \/ AnalyzeFinish

SpecAnalyze == InitAnalyze /\ [][NextAnalyze]_vars

\* Tailoring runs, one at a time.
NextTailor ==
    \/ TailorStart
    \/ TailorGenOk
    \/ TailorGenFail
    \/ TailorFinish

SpecTailor == InitAnalyze /\ [][NextTailor]_vars

\* The cache under one caller and the sweep, the clock advancing by seconds.
NextCache ==
    \/ CacheCall(SeqCaller, CacheKeys)
    \/ SweepCall
    \/ \E t \in CacheThreads : CacheEnter(t)
    \/ \E t \in CacheThreads : CacheBody(t)
    \/ \E t \in CacheThreads : CacheReturn(t)
    \/ Tick({1})

SpecCache == InitAnalyze /\ [][NextCache]_vars

\* The cache under two concurrent callers and the sweep, on one key.
NextCacheLock ==
    \/ \E t \in Callers : CacheCall(t, {"k1"})
    \/ SweepCall
    \/ \E t \in CacheThreads : CacheEnter(t)
    \/ \E t \in CacheThreads : CacheBody(t)
    \/ \E t \in CacheThreads : CacheReturn(t)

SpecCacheLock == InitAnalyze /\ [][NextCacheLock]_vars

\* The cache with its cleanup task started and stopped, one caller using one key.
NextCleanup ==
    \/ CleanupStart
    \/ CleanupStop
    \/ CleanupStopReturn
    \/ LoopBegin
    \/ LoopTest
    \/ LoopWake
    \/ LoopSwept
    \/ LoopSweepRaises
    \/ LoopPrint
    \/ LoopCancelled
    \/ CacheCall(SeqCaller, {"k1"})
    \/ \E t \in CacheThreads : CacheEnter(t)
    \/ \E t \in CacheThreads : CacheBody(t)
    \/ CacheReturn(SeqCaller)
    \/ Tick({1})

SpecCleanup == InitAnalyze /\ [][NextCleanup]_vars

\* The same with the event loop running: a task that can take a step takes it, and
\* a sleep ends.
SpecCleanupFair == SpecCleanup /\ WF_vars(LoopRun)

\* _calculate_ats_score, one call at a time.
NextAts ==
    \/ AtsCalculate
    \/ AtsReturn

SpecAts == InitAnalyze /\ [][NextAts]_vars

\* Resume-wide optimization runs and tailoring runs, one of each at a time.
NextOptimize ==
    \/ OptimizeStart
    \/ OptimizeStarReturns
    \/ OptimizeFinish
    \/ NextTailor

SpecOptimize == InitAnalyze /\ [][NextOptimize]_vars

\* The scoring and selecting functions, one call at a time.
NextScoring ==
    \/ MatchCalculate
    \/ ScoreExperiencePair
    \/ ScoreBulletPair
    \/ SelectSkillsCall
    \/ ScoringReturn

SpecScoring == InitAnalyze /\ [][NextScoring]_vars

\* Two concurrent generate_text calls on one gateway with failover enabled.
NextConcurrent ==
    \/ \E c \in Callers : GenStart(c)
    \/ \E c \in Callers : GenAttemptOk(c)
    \/ \E c \in Callers : GenAttemptFail(c)
    \/ \E c \in Callers : GenWake(c)
    \/ \E c \in Callers : GenFallbackOk(c)
    \/ \E c \in Callers : GenFallbackFail(c)
    \/ \E c \in Callers : GenFinish(c)

SpecConcurrent == InitAnalyze /\ [][NextConcurrent]_vars

\* Two requests for a cached JD analysis, one call each, over an empty cache and an
\* empty store.
NextPair ==
    \/ \E c \in Callers : PairStart(c, JDTexts)
    \/ \E c \in Callers : PairDbSelect(c)
    \/ \E c \in Callers : PairLlmOk(c)
    \/ \E c \in Callers : PairCommit(c)
    \/ \E c \in Callers : PairRefresh(c)

SpecPair == InitCached /\ [][NextPair]_vars

\* The cache started and stopped by a caller that makes its calls in a sequence:
\* each call after the last one has returned.
NextLifecycle ==
    \/ CleanupStartInTurn
    \/ CleanupStop
    \/ CleanupStopReturn
    \/ LoopBegin
    \/ LoopTest
    \/ LoopWake
    \/ LoopSwept
    \/ LoopSweepRaises
    \/ LoopPrint
    \/ LoopCancelled
    \/ CacheCall(SeqCaller, {"k1"})
    \/ \E t \in CacheThreads : CacheEnter(t)
    \/ \E t \in CacheThreads : CacheBody(t)
    \/ CacheReturn(SeqCaller)
    \/ Tick({1})

SpecLifecycle == InitAnalyze /\ [][NextLifecycle]_vars

\* select_content, one call at a time.
NextSelect ==
    \/ SelectContent
    \/ SelectReturn

SpecSelect == InitAnalyze /\ [][NextSelect]_vars

\* Both JD analyses, one call at a time, on the texts around the length limit (the
\* clock stands still).
NextJD ==
    \/ ExecStart(BoundaryTexts)
    \/ ExecDbSelect
    \/ ExecDbSelectFail
    \/ ExecLlmOk
    \/ ExecLlmFail
    \/ ExecCommit
    \/ ExecCommitFail
    \/ ExecRefresh
    \/ ExecRefreshFail
    \/ ExecFinish
    \/ AnalyzeStart(BoundaryTexts)
    \/ AnalyzeLlmOk
    \/ AnalyzeLlmFail
    \/ AnalyzeFinish

SpecJD == InitAnalyze /\ [][NextJD]_vars

(***************************************************************************)
(* Claims about the gateway.                                               *)
(***************************************************************************)
\* The shape of a finished call's log.
AllOutcomes(log, provider, outcome) ==
    \A i \in DOMAIN log : log[i].backend = provider => log[i].outcome = outcome
CountOf(log, provider) == Cardinality({i \in DOMAIN log : log[i].backend = provider})
\* the call started on the primary with failover enabled, every primary attempt
\* failed, and what the fallback was asked it answered with the given outcome
FailoverCase(c, fallback_outcome) ==
    /\ call[c].pc = "done"
    /\ enable_fallback
    /\ call[c].started_on = primary_provider_name
    /\ AllOutcomes(call[c].log, primary_provider, "fail")
    /\ AllOutcomes(call[c].log, fallback_provider, fallback_outcome)

\* C1: with failover enabled and the primary active, a generate call whose primary
\* attempts all fail and whose fallback succeeds makes exactly max_retries attempts
\* against the primary, then exactly one against the fallback, returns the fallback's
\* text, and get_current_provider then reports the fallback name (no reset_to_primary
\* having been called meanwhile).
C1_FailoverToFallback ==
    FailoverCase(SeqCaller, "ok") =>
        LET log == call[SeqCaller].log IN
        /\ Len(log) = max_retries + 1
        /\ \A i \in 1..max_retries : log[i].backend = primary_provider
        /\ log[max_retries + 1].backend = fallback_provider
        /\ call[SeqCaller].result.status = "returned"
        /\ call[SeqCaller].result.value.by = fallback_provider
        /\ (call[SeqCaller].resets = 0 => get_current_provider = fallback_provider_name)

C1_Witness ==
    /\ FailoverCase(SeqCaller, "ok")
    /\ max_retries = 2
    /\ call[SeqCaller].resets = 0
    /\ call[SeqCaller].result.status = "returned"

C3_BothFailedCarriesBothCauses ==
    FailoverCase(SeqCaller, "fail") =>
        LET log == call[SeqCaller].log
            res == call[SeqCaller].result IN
        /\ CountOf(log, fallback_provider) = 1
        /\ res.status = "raised"
        /\ res.kind = "both_failed"
        /\ res.primary_error = log[max_retries].err
        /\ res.primary_error \in Errs
        /\ res.fallback_error = log[Len(log)].err
        /\ res.fallback_error \in Errs

C3_Witness ==
    /\ FailoverCase(SeqCaller, "fail")
    /\ call[SeqCaller].result.status = "raised"
    /\ call[SeqCaller].result.primary_error = "e1"
    /\ call[SeqCaller].result.fallback_error = "e2"

(***************************************************************************)
(* Claims about the cached JD analysis.                                    *)
(***************************************************************************)
\* C4: a call for a text whose cache entry an earlier successful call wrote, made no
\* later than JD_TTL seconds after that write, returns cached = true and makes no
\* generation call.
C4_SecondCallWithinTtlIsCached ==
    (/\ jx.pc = "done"
     /\ jx.entry_written_at >= 0
     /\ jx.started_at <= jx.entry_written_at + JD_TTL)
    => /\ jx.result.status = "returned"
       /\ jx.result.value.cached = TRUE
       /\ jx.llm_calls = 0

\* the second call comes exactly when the TTL runs out
C4_Witness ==
    /\ jx.pc = "done"
    /\ jx.entry_written_at >= 0
    /\ jx.started_at = jx.entry_written_at + JD_TTL
    /\ jx.result.status = "returned"
    /\ jx.result.value.cached = TRUE
    /\ jx.trace = <<"cache_get">>

\* C5: the cache is consulted first, the store only after a cache miss, the LLM only
\* after both miss.  A fresh result is in the store and in the cache when the call
\* returns it with cached = false; a store hit is written back to the cache and
\* returned with cached = true without a generation call.
FreshTrace == <<"cache_get", "db_select", "llm", "db_commit", "cache_set">>
StoreHitTrace == <<"cache_get", "db_select", "cache_set">>
IsPrefix(a, b) == Len(a) <= Len(b) /\ a = SubSeq(b, 1, Len(a))
CountIn(seq, x) == Cardinality({i \in DOMAIN seq : seq[i] = x})

C5_CacheThenStoreThenLlm ==
    /\ IsPrefix(jx.trace, FreshTrace) \/ jx.trace = StoreHitTrace
    /\ jx.llm_calls = CountIn(jx.trace, "llm")
    /\ (jx.pc = "done" /\ jx.result.status = "returned") =>
         LET value == jx.result.value
             key == CacheKey(jx.jd_hash)
             rows == {r \in db : r.jd_hash = jx.jd_hash}
         IN  /\ jx.trace \in {<<"cache_get">>, StoreHitTrace, FreshTrace}
             /\ jx.trace = <<"cache_get">> => value.cached = TRUE
             /\ jx.trace = StoreHitTrace =>
                  /\ value.cached = TRUE
                  /\ jx.llm_calls = 0
                  /\ \E r \in rows : value = MarkCached(DbResult(r))
                  /\ now = jx.ended_at =>
                       /\ key \in DOMAIN cache
                       /\ MarkCached(JsonLoads(cache[key].value)) = value
                       /\ cache[key].expires_at = now + JD_TTL
             /\ jx.trace = FreshTrace =>
                  /\ value.cached = FALSE
                  /\ \E r \in rows : /\ r.id = value.jd_id
                                     /\ r.analysis_result = value.analysis
                  /\ now = jx.ended_at =>
                       /\ key \in DOMAIN cache
                       /\ JsonLoads(cache[key].value) = value
                       /\ cache[key].expires_at = now + JD_TTL

\* a store hit after the cache entry has expired
C5_Witness ==
    /\ jx.pc = "done"
    /\ jx.result.status = "returned"
    /\ jx.trace = StoreHitTrace
    /\ now = jx.ended_at
    /\ jx.entry_written_at >= 0

(***************************************************************************)
(* Claims about the JD analyzer and /jd/analyze                            *)
(***************************************************************************)
TrimmedLen(text) == StrLen(Strip(text))

\* C6: for every JD text whose trimmed length is below 50, both analyses
\* (AnalyzeJDUseCase.execute and the cached JDAnalysisEnhancedUseCase.execute) fail with
\* the validation error, and no generation call is made for the text.
C6_ShortTextFailsValidationWithoutGeneration ==
    /\ (ax.pc # "idle" /\ TrimmedLen(ax.raw_text) < 50) =>
          /\ ax.pc = "done"
          /\ ax.outcome = [kind |-> "raised", error |-> "ValueError"]
          /\ ax.llm_calls = 0
    /\ (jx.pc # "idle" /\ TrimmedLen(jx.raw) < 50) =>
          /\ jx.pc = "done"
          /\ jx.result = Raised("ValueError")
          /\ jx.llm_calls = 0
          /\ jx.trace = <<>>

\* both analyses have rejected a text of 53 characters, 49 of them once trimmed
C6_Witness ==
    /\ ax.pc = "done" /\ jx.pc = "done"
    /\ ax.raw_text = jx.raw
    /\ StrLen(jx.raw) >= 50 /\ TrimmedLen(jx.raw) < 50
    /\ ax.outcome = [kind |-> "raised", error |-> "ValueError"]
    /\ jx.result = Raised("ValueError")

\* the answer of a request does not parse as the structured object asked for
Unparsable(response) ==
    LET json_text == StripTokens(StripFences(response)) IN
    ~(JsonDecodes(json_text) /\ json_text[1].type = "dict")

IsMinimalJD(jd, raw_text) ==
    /\ jd.position = ExtractPositionFallback(raw_text)
    /\ jd.required_skills = <<>> /\ jd.preferred_skills = <<>>
    /\ jd.responsibilities = <<>> /\ jd.qualifications = <<>>
    /\ jd.keywords = <<>>

\* C9: whatever text a successful generation call returns, analyze returns a
\* JobDescription; when the text does not parse as the expected structured object, it
\* is the minimal JobDescription: the heuristic position and empty lists.
C9_NeverHardFailsOnMalformedOutput ==
    (ax.pc = "done" /\ ax.generation = "ok") =>
        /\ ax.outcome.kind = "jd"
        /\ Unparsable(ax.response) =>
              IsMinimalJD(ax.outcome.jd, Strip(ax.raw_text))

\* C10: when the generation call fails, analyze raises (it returns no JobDescription,
\* minimal or not), the handler answers success = false, and no JobDescription is
\* stored for later tailoring.
C10_GenerationFailurePropagates ==
    (ax.pc = "done" /\ ax.generation = "failed") =>
        /\ ax.outcome.kind = "raised"
        /\ ax.outcome.error # "ValueError"
        /\ ax.http = [success |-> FALSE, status |-> 200]
        /\ job_descriptions = ax.stored_before

\* a generation call has failed for a text that passed validation, with JDs stored
\* by earlier requests
C10_Witness ==
    /\ ax.pc = "done" /\ ax.generation = "failed" /\ ax.llm_calls = 1
    /\ ax.outcome = [kind |-> "raised", error |-> "RuntimeError"]
    /\ Len(job_descriptions) > 0

(***************************************************************************)
(* Claims about bullet optimization and tailoring                          *)
(***************************************************************************)
\* C7: when the generation call of optimize_bullet fails, whatever the error,
\* optimize_bullet raises nothing and returns a BulletOptimization whose optimized_text
\* is the bullet's original text verbatim.
C7_FailedGenerationKeepsOriginalText ==
    /\ tx.result.status # "raised"
    /\ Len(tx.all_optimizations) =
          (IF tx.pc = "gen" THEN tx.k - 1 ELSE Len(tx.generations))
    /\ \A i \in DOMAIN tx.all_optimizations :
          tx.generations[i] = "failed" =>
              /\ tx.all_optimizations[i].optimized_text = tx.to_optimize[i].bullet.text
              /\ tx.all_optimizations[i].original_text = tx.to_optimize[i].bullet.text

\* the generation call has failed for a bullet whose text begins with a blank and a
\* dash, which the clean-up of a response would have removed
C7_Witness ==
    \E i \in DOMAIN tx.all_optimizations :
        /\ tx.generations[i] = "failed"
        /\ CleanResponse(tx.to_optimize[i].bullet.text) # tx.to_optimize[i].bullet.text
        /\ tx.all_optimizations[i].optimized_text = tx.to_optimize[i].bullet.text

\* the selected bullets in ranked-experience then ranked-bullet order
RECURSIVE RankedBullets(_, _)
RankedBullets(selected_exps, jd) ==
    IF selected_exps = <<>> THEN <<>>
    ELSE SelectBullets(Head(selected_exps), jd, MaxBulletsPerExp)
         \o RankedBullets(Tail(selected_exps), jd)

\* C8: a tailoring run in which any of the generation calls fail still completes and
\* returns a TailoredResume with exactly one BulletOptimization per selected bullet, in
\* ranked-experience then ranked-bullet order; a bullet whose generation failed has
\* its original text as optimized text.
C8_RunKeepsEverySelectedBullet ==
    tx.pc = "done" =>
        /\ tx.result.status = "returned"
        /\ LET ranked == RankedBullets(
                   SelectedExperiences(tx.master_resume, tx.jd, MaxExperiences), tx.jd)
               optimizations == tx.result.value.selected_bullet_optimizations
           IN  /\ Len(optimizations) = Len(ranked)
               /\ \A i \in DOMAIN optimizations :
                     /\ optimizations[i].bullet_id = ranked[i].id
                     /\ optimizations[i].original_text = ranked[i].text
                     /\ tx.generations[i] = "failed" =>
                           optimizations[i].optimized_text = ranked[i].text

(***************************************************************************)
(* Claims about content selection                                          *)
(***************************************************************************)
\* C11: for every master resume, every JD and all integer limits, select_content
\* returns at most max_experiences experiences and, for each of them, at most
\* max_bullets_per_exp bullets.
C11_SelectionWithinLimits ==
    sc.pc = "done" =>
        /\ Len(sc.selected_exps) <= sc.max_experiences
        /\ \A i \in DOMAIN sc.selected_exps :
              Len(sc.selected_bullets_map[sc.selected_exps[i].id])
                  <= sc.max_bullets_per_exp

\* the orders of n items: the one-to-one maps from places to positions in the resume
Orders(n) == {f \in [1..n -> 1..n] : \A a, b \in 1..n : f[a] = f[b] => a = b}

\* result is a beginning of the items put in non-increasing order of score, items of
\* equal score in their order in the resume
IsRankedBeginning(result, items, score(_)) ==
    \E f \in Orders(Len(items)) :
        /\ \A a, b \in 1..Len(items) :
              a < b => \/ FracLess(score(items[f[b]]), score(items[f[a]]))
                       \/ /\ score(items[f[a]]) = score(items[f[b]])
                          /\ f[a] < f[b]
        /\ Len(result) <= Len(items)
        /\ \A i \in DOMAIN result : result[i] = items[f[i]]

\* C12: select_content returns the experiences in non-increasing order of experience
\* score and, for each experience, bullets in non-increasing order of bullet score;
\* items of equal score keep their order from the master resume (so the result is a
\* function of the inputs).
C12_RankedAndStable ==
    sc.pc = "done" =>
        LET ExpScore(e) == ScoreExperience(e, sc.jd)
            BulletScore(b) == ScoreBullet(b, sc.jd)
        IN  /\ IsRankedBeginning(sc.selected_exps, sc.master_resume.experiences, ExpScore)
            /\ \A i \in DOMAIN sc.selected_exps :
                  \E j \in DOMAIN sc.selected_exps :
                      /\ sc.selected_exps[j].id = sc.selected_exps[i].id
                      /\ IsRankedBeginning(sc.selected_bullets_map[sc.selected_exps[i].id],
                                           sc.selected_exps[j].bullets, BulletScore)

\* a call that moved an experience to the front and returned two experiences, and two
\* bullets, of equal score
C12_Witness ==
    /\ sc.pc = "done"
    /\ Len(sc.selected_exps) >= 3
    /\ sc.selected_exps[1] # sc.master_resume.experiences[1]
    /\ \E i \in DOMAIN sc.selected_exps :
          /\ i + 1 \in DOMAIN sc.selected_exps
          /\ ScoreExperience(sc.selected_exps[i], sc.jd)
                 = ScoreExperience(sc.selected_exps[i + 1], sc.jd)
    /\ \E i \in DOMAIN sc.selected_exps :
          LET bullets == sc.selected_bullets_map[sc.selected_exps[i].id] IN
          \E k \in DOMAIN bullets :
              /\ k + 1 \in DOMAIN bullets
              /\ ScoreBullet(bullets[k], sc.jd) = ScoreBullet(bullets[k + 1], sc.jd)

(***************************************************************************)
(* Claims about the cache                                                  *)
(***************************************************************************)
\* C13: whatever set, get, delete and clear operations and clock advances came before,
\* a lookup never returns a value whose expiry is earlier than the current time: such
\* a lookup reports the key as absent and removes the entry from the map.
C13_LookupNeverReturnsExpired ==
    \A t \in CacheThreads :
        (th[t].pc = "done" /\ th[t].op = "get") =>
            LET c == th[t] IN
            /\ (c.key \in DOMAIN c.before /\ c.before[c.key].expires_at < c.time) =>
                   /\ c.returned = None
                   /\ c.key \notin DOMAIN c.after
            /\ c.returned # None =>
                   /\ c.key \in DOMAIN c.before
                   /\ c.before[c.key].expires_at >= c.time
                   /\ c.returned = c.before[c.key].value
                   /\ c.after = c.before

\* a lookup has found an entry that expired a second before
C13_Witness ==
    \E t \in CacheThreads :
        /\ th[t].pc = "done" /\ th[t].op = "get"
        /\ th[t].key \in DOMAIN th[t].before
        /\ th[t].before[th[t].key].expires_at = th[t].time - 1
        /\ th[t].returned = None
        /\ th[t].after = NoEntries

InCritical(t) == th[t].pc = "locked"

\* C14: every operation that reads or modifies the entry map (get with its eviction,
\* set, delete, clear, get_stats, the sweep) does so holding the single lock: no two
\* threads are inside the map's critical section at the same time.
C14_OneThreadInsideAtATime ==
    /\ \A t \in CacheThreads : InCritical(t) => lock = t
    /\ \A t, u \in CacheThreads : (InCritical(t) /\ InCritical(u)) => t = u
    /\ lock # "free" => InCritical(lock)

\* the sweep is inside while both callers wait for the lock
C14_Witness ==
    /\ InCritical(SweepThread)
    /\ \A t \in Callers : th[t].pc = "wait"

\* C15: one sweep removes every entry whose expiry is earlier than the time the sweep
\* read, and leaves every other entry (key, value and expiry) as it was.
C15_SweepRemovesExactlyExpired ==
    (th[SweepThread].pc = "done") =>
        LET c == th[SweepThread] IN
        c.after = [k \in {x \in DOMAIN c.before : c.before[x].expires_at >= c.time}
                      |-> c.before[k]]

\* a sweep has found an expired entry, an entry expiring at this very second and
\* has removed the first one only
C15_Witness ==
    LET c == th[SweepThread] IN
    /\ c.pc = "done"
    /\ \E k1, k2 \in DOMAIN c.before :
          /\ c.before[k1].expires_at < c.time
          /\ c.before[k2].expires_at = c.time
          /\ DOMAIN c.after = {k2}

(***************************************************************************)
(* Claims about the cleanup loop.                                          *)
(***************************************************************************)
SweepFailed == cl.task = "failed"
SweepAttempted == cl.task = "sweeping"
Stopped == ~cl.running

\* C16: once a sweep has raised, the cleanup loop goes on: unless the cache is
\* stopped, the loop sleeps one more interval and calls the sweep again.
C16_LoopSurvivesSweepError == SweepFailed ~> (SweepAttempted \/ Stopped)

\* a sweep is being attempted by a task one of whose earlier sweeps raised
C16_Witness == cl.running /\ cl.failed_before /\ SweepAttempted

(***************************************************************************)
(* Claims about the ATS score.                                             *)
(***************************************************************************)
\* C17: for a match score between 0 and 100 and any list of optimizations, the ATS
\* score returned lies between 0 and 100.
C17_AtsScoreWithinRange ==
    at.pc = "done" =>
        /\ ~FracLess(at.ats_score, FracOf(0))
        /\ ~FracLess(FracOf(100), at.ats_score)

\* all three terms maximal: match score 100, every optimization mentions a metric,
\* three or more matched keywords per optimization on average
C17_Witness ==
    /\ at.pc = "done"
    /\ at.match_score = FracOf(100)
    /\ at.optimizations # <<>>
    /\ \A i \in DOMAIN at.optimizations :
           \E k \in DOMAIN at.optimizations[i].improvements :
               MentionsMetric(at.optimizations[i].improvements[k])
    /\ SumKeywordMatches(at.optimizations) > 3 * Len(at.optimizations)
    /\ at.ats_score = FracOf(100)

(***************************************************************************)
(* Claims about the optimizations of a tailoring run.                      *)
(***************************************************************************)
OptimizationsKeepOrigin ==
    \A i \in DOMAIN tx.all_optimizations :
        /\ tx.all_optimizations[i].original_text = tx.to_optimize[i].bullet.text
        /\ tx.all_optimizations[i].bullet_id = tx.to_optimize[i].bullet.id
BulletsUntouched ==
    tx.pc = "gen" =>
        /\ tx'.master_resume = tx.master_resume
        /\ tx'.selected_exps = tx.selected_exps
        /\ tx'.to_optimize = tx.to_optimize

\* C18: every optimization, whether its generation call returned or failed, carries
\* the text and the id of the bullet it was made from, and optimizing changes no
\* bullet of the master resume.
C18_OptimizationKeepsOriginal == []OptimizationsKeepOrigin /\ [][BulletsUntouched]_vars

\* one run holds an optimization whose text differs from its bullet's and one whose
\* generation failed
C18_Witness ==
    /\ \E i \in DOMAIN tx.all_optimizations :
           /\ tx.generations[i] = "ok"
           /\ tx.all_optimizations[i].optimized_text # tx.to_optimize[i].bullet.text
           /\ tx.all_optimizations[i].original_text = tx.to_optimize[i].bullet.text
    /\ \E j \in DOMAIN tx.all_optimizations : tx.generations[j] = "failed"

\* C19: every optimization made in a run, and every one in the TailoredResume the
\* run returns, has status pending.
C19_StatusAlwaysPending ==
    /\ \A i \in DOMAIN tx.all_optimizations : tx.all_optimizations[i].status = "pending"
    /\ tx.result.status = "returned" =>
           \A i \in DOMAIN tx.result.value.selected_bullet_optimizations :
               tx.result.value.selected_bullet_optimizations[i].status = "pending"

\* a run has returned a TailoredResume holding a rewritten bullet
C19_Witness ==
    /\ tx.pc = "done"
    /\ tx.result.status = "returned"
    /\ \E i \in DOMAIN tx.result.value.selected_bullet_optimizations :
           LET o == tx.result.value.selected_bullet_optimizations[i]
           IN  o.optimized_text # o.original_text /\ o.status = "pending"

(***************************************************************************)
(* Claims about the verbs already used.                                    *)
(***************************************************************************)
\* the leading words of the texts optimized so far
LeadingWords(optimizations) ==
    {Words(optimizations[i].optimized_text)[1] :
        i \in {j \in DOMAIN optimizations : Words(optimizations[j].optimized_text) # <<>>}}
\* the used verbs an optimizer call is given
VerbsReceived(args) ==
    IF "used_verbs" \in DOMAIN args THEN Range(args.used_verbs) ELSE {}

\* C20: every bullet-optimization call of a run is given the leading verbs of all
\* the bullets optimized earlier in that run, whatever their experience.
C20_CallsReceiveEarlierVerbs ==
    /\ ox.pc = "call" =>
           LeadingWords(ox.optimizations) \subseteq VerbsReceived(OptimizeBulletStarArgs(ox))
    /\ tx.pc = "gen" =>
           LeadingWords(tx.all_optimizations) \subseteq VerbsReceived(OptimizeBulletArgs(tx))

(***************************************************************************)
(* Claims about the scoring and selecting functions.                       *)
(***************************************************************************)
\* the JD keywords found, by substring and without regard to case, in the skills or
\* the bullet texts of the given experiences
KeywordsFoundIn(exps, jd) ==
    {k \in DOMAIN jd.keywords :
        \E i \in DOMAIN exps :
            \/ \E s \in Range(exps[i].skills_used) :
                   Contains(Lower(s), Lower(jd.keywords[k].text))
            \/ \E b \in DOMAIN exps[i].bullets :
                   In(Lower(jd.keywords[k].text), LowerText(exps[i].bullets[b].text))}

\* C21: the match score is 50 for a JD without keywords and otherwise 100 times the
\* share of the JD keywords found in the selected experiences' skills or bullets;
\* it lies between 0 and 100 and no experience that was not selected counts.
C21_MatchScoreIsSelectedCoverage ==
    (fn.pc = "done" /\ fn.op = "calculate_match_score") =>
        /\ fn.result =
               IF fn.jd.keywords = <<>> THEN FracOf(50)
               ELSE Frac(100 * Cardinality(KeywordsFoundIn(fn.selected_exps, fn.jd)),
                         Len(fn.jd.keywords))
        /\ ~FracLess(fn.result, FracOf(0))
        /\ ~FracLess(FracOf(100), fn.result)

\* how many of the JD's required and preferred skills the skills match, case set aside
MatchedJDSkills(skills_used, jd) ==
    Cardinality({j \in {Lower(s) : s \in Range(jd.required_skills \o jd.preferred_skills)} :
                    \E s \in Range(skills_used) : Lower(s) = j})

\* C22: of two experiences that differ in skills_used only, the one matching at
\* least as many JD skills scores at least as much.
C22_ScoreMonotoneInMatchedSkills ==
    (fn.pc = "done" /\ fn.op = "_score_experience") =>
        (MatchedJDSkills(fn.a.skills_used, fn.jd) <= MatchedJDSkills(fn.b.skills_used, fn.jd)
            => ~FracLess(fn.score_b, fn.score_a))

\* one more matched skill has raised the score of an experience that also scores on
\* its bullets
C22_Witness ==
    /\ fn.pc = "done" /\ fn.op = "_score_experience"
    /\ fn.a.bullets # <<>>
    /\ MatchedJDSkills(fn.a.skills_used, fn.jd) = 1
    /\ MatchedJDSkills(fn.b.skills_used, fn.jd) = 2
    /\ FracLess(FracOf(0), KeywordMatchPoints(fn.a, fn.jd))
    /\ FracLess(fn.score_a, fn.score_b)

\* the JD keywords a bullet text holds
KeywordsHeld(text, jd) ==
    {k \in DOMAIN jd.keywords : In(Lower(jd.keywords[k].text), LowerText(text))}

\* C23: of two bullets holding the same JD keywords, the first with a quantification
\* pattern and the second without, the first scores exactly 20 more.
C23_MetricsAddTwenty ==
    (/\ fn.pc = "done" /\ fn.op = "_score_bullet"
     /\ KeywordsHeld(fn.a.text, fn.jd) = KeywordsHeld(fn.b.text, fn.jd)
     /\ HasMetrics(fn.a.text) /\ ~HasMetrics(fn.b.text))
        => /\ fn.score_a = FracAdd(fn.score_b, FracOf(20))
           /\ ~FracLess(fn.score_a, fn.score_b)

\* two bullets with the same keyword, one of them with a percentage, have been scored
C23_Witness ==
    /\ fn.pc = "done" /\ fn.op = "_score_bullet"
    /\ KeywordsHeld(fn.a.text, fn.jd) = KeywordsHeld(fn.b.text, fn.jd)
    /\ KeywordsHeld(fn.a.text, fn.jd) # {}
    /\ HasMetrics(fn.a.text) /\ ~HasMetrics(fn.b.text)
    /\ FracLess(FracOf(0), fn.score_b)
    /\ fn.score_a = FracAdd(fn.score_b, FracOf(20))

\* a skill name matches a required or preferred skill of the JD, case set aside
MatchesJDSkill(name, jd) ==
    \E s \in Range(jd.required_skills \o jd.preferred_skills) : Lower(s) = Lower(name)
\* the named skills of the master resume, the matching ones first, each group in its
\* original order
SkillsByPriority(master_resume, jd) ==
    LET named == SelectSeq(master_resume.skills, LAMBDA name : name # "")
    IN  SelectSeq(named, LAMBDA name : MatchesJDSkill(name, jd))
        \o SelectSeq(named, LAMBDA name : ~MatchesJDSkill(name, jd))

\* C24: the selected skills are at most 15 names of the master resume: the ones
\* matching a JD skill in their original order, then the others in their original
\* order as far as room is left.
C24_SkillsMatchedFirstUpToFifteen ==
    (fn.pc = "done" /\ fn.op = "_select_skills") =>
        LET by_priority == SkillsByPriority(fn.master_resume, fn.jd)
        IN  /\ Len(fn.result) <= 15
            /\ Len(fn.result) = IF Len(by_priority) < 15 THEN Len(by_priority) ELSE 15
            /\ fn.result = SubSeq(by_priority, 1, Len(fn.result))
            /\ Range(fn.result) \subseteq Range(fn.master_resume.skills)

\* of eighteen skills the three matching ones, which stood behind ten others, lead
\* the fifteen selected
C24_Witness ==
    /\ fn.pc = "done" /\ fn.op = "_select_skills"
    /\ Len(fn.master_resume.skills) > 15
    /\ Len(fn.result) = 15
    /\ ~MatchesJDSkill(fn.master_resume.skills[1], fn.jd)
    /\ MatchesJDSkill(fn.result[3], fn.jd)
    /\ ~MatchesJDSkill(fn.result[4], fn.jd)

(***************************************************************************)
(* Claims about the gateway's waits and its calls on the fallback.         *)
(***************************************************************************)
\* the attempts of the retry loop that have failed in a call
FailedLoopAttempts(c) ==
    Cardinality({i \in DOMAIN call[c].log :
                    i <= call[c].attempt + 1 /\ call[c].log[i].outcome = "fail"})
Min(a, b) == IF a < b THEN a ELSE b

\* C25: a call waits only between two attempts of the retry loop: after k failed
\* attempts of the loop it has waited min(k, max_retries - 1) times, so there is no
\* wait before the fallback attempt nor after the last failure.
C25_WaitsOnlyBetweenRetries ==
    \A c \in Callers :
        /\ call[c].sleeps = Min(FailedLoopAttempts(c), max_retries - 1)
        /\ call[c].pc = "sleep" =>
               /\ call[c].attempt < max_retries - 1
               /\ call[c].log[Len(call[c].log)].outcome = "fail"
        /\ call[c].pc = "await_fallback" => call[c].sleeps = max_retries - 1

\* three primary attempts have failed with two waits between them and the fallback
\* attempt is under way without a further wait
C25_Witness ==
    /\ max_retries = 3
    /\ call[SeqCaller].pc = "await_fallback"
    /\ FailedLoopAttempts(SeqCaller) = 3
    /\ call[SeqCaller].sleeps = 2

\* C26: a call that starts while the fallback is the active backend and whose every
\* attempt fails (no reset_to_primary meanwhile) makes exactly max_retries attempts,
\* all against the fallback and none against the primary, raises, and leaves the
\* fallback active.
C26_FallbackActiveFailsAfterRetries ==
    \A c \in Callers :
        (/\ call[c].pc = "done"
         /\ call[c].started_on = fallback_provider_name
         /\ call[c].resets = 0
         /\ \A i \in DOMAIN call[c].log : call[c].log[i].outcome = "fail")
        => /\ Len(call[c].log) = max_retries
           /\ \A i \in DOMAIN call[c].log : call[c].log[i].backend = fallback_provider
           /\ CountOf(call[c].log, primary_provider) = 0
           /\ call[c].result.status = "raised"
           /\ call[c].result.kind = "retries_failed"
           /\ current_provider = fallback_provider
           /\ current_provider_name = fallback_provider_name

\* a call begun on the fallback has failed after three attempts against it
C26_Witness ==
    /\ max_retries = 3
    /\ call[SeqCaller].pc = "done"
    /\ call[SeqCaller].started_on = fallback_provider_name
    /\ call[SeqCaller].resets = 0
    /\ Len(call[SeqCaller].log) = 3
    /\ call[SeqCaller].result.status = "raised"
    /\ current_provider_name = fallback_provider_name

\* C27: with two concurrent calls and failover enabled, a call that began while the
\* primary was active fails only after it has attempted the fallback at least once.
C27_FailsOnlyAfterTryingFallback ==
    \A c \in Callers :
        (/\ call[c].pc = "done"
         /\ call[c].started_on = primary_provider_name
         /\ call[c].result.status = "raised")
        => CountOf(call[c].log, fallback_provider) >= 1

\* C29: when the store write of a fresh analysis fails, the call raises the store's
\* error and writes no cache entry for the text; every analysis the cache holds is
\* the analysis of a record of the store, under the key of that record's hash.
StoreWriteFailed ==
    /\ jx.pc = "done"
    /\ jx.result.status = "raised"
    /\ jx.trace = <<"cache_get", "db_select", "llm", "db_commit">>
    /\ jx.row_id = 0

CachedFromStore(key) ==
    /\ IsJson(cache[key].value)
    /\ \E r \in db :
          /\ key = CacheKey(r.jd_hash)
          /\ JsonLoads(cache[key].value).jd_id = r.id
          /\ JsonLoads(cache[key].value).analysis = r.analysis_result

C29_FailedWriteCachesNothing ==
    /\ StoreWriteFailed =>
          /\ jx.result.error \in {"DatabaseError", "IntegrityError"}
          /\ WrittenAt(jx.jd_hash) = jx.entry_written_at
          /\ CountIn(jx.trace, "cache_set") = 0
    /\ \A key \in DOMAIN cache : CachedFromStore(key)

\* the commit of a fresh analysis has failed: the store has no record of the text
\* and the cache no entry for it
C29_Witness ==
    /\ StoreWriteFailed
    /\ jx.result.error = "DatabaseError"
    /\ jx.analysis \in Analyses
    /\ ~\E r \in db : r.jd_hash = jx.jd_hash
    /\ CacheKey(jx.jd_hash) \notin DOMAIN cache
    /\ db # {}

\* C28: two calls with the same text over a cache and a store that held nothing for
\* it, however their steps interleave, both return an analysis, and the store has
\* exactly one record of that hash when both are over.
BothOver == \A c \in Callers : jp[c].pc = "done"
SameText == jp["c1"].raw = jp["c2"].raw /\ ~TooShort(jp["c1"].raw)

C28_BothReturnOneRecord ==
    (BothOver /\ SameText) =>
        /\ \A c \in Callers : jp[c].result.status = "returned"
        /\ Cardinality({r \in db : r.jd_hash = jp["c1"].jd_hash}) = 1

\* C30: over any sequence of start and stop calls, at most one cleanup task is
\* unfinished at a time (a start on a running cache leaves the one task there is),
\* and from the return of stop to the next start no task is left and no sweep is
\* in progress.
TasksUnfinished ==
    (IF cl.task \in Unfinished THEN 1 ELSE 0) + (IF cl.old # "none" THEN 1 ELSE 0)
SweepInProgress == th[SweepThread].pc # "idle"
StopReturned == ~cl.running /\ ~cl.awaiting

C30_AtMostOneSweepTask ==
    /\ TasksUnfinished <= 1
    /\ cl.running => TasksUnfinished = 1
    /\ StopReturned => TasksUnfinished = 0 /\ ~SweepInProgress
    /\ SweepInProgress => cl.task = "sweeping"

\* start has been called on a running cache whose task is asleep
C30_Witness ==
    /\ cl.called = "start_running"
    /\ cl.running
    /\ cl.task = "sleeping"
    /\ TasksUnfinished = 1

====
